---- MODULE Spec2Model ----
(***************************************************************************)
(* Model of rav1e's src/partition.rs: the geometry tables (BlockSize,      *)
(* PartitionType, TxSize), the reference-slot and motion-vector primitives *)
(* (RefType, MotionVector), the neighbour-availability predicates has_tr / *)
(* has_bl, the intra edge builder get_intra_edges and the prediction       *)
(* dispatch predict_intra / predict_inter.                                 *)
(*                                                                         *)
(* Every function of the file is pure.  The state machine is a caller that *)
(* invokes one function at a time: a Call_* action draws the arguments     *)
(* from bounded sets, evaluates the function as the code does and records  *)
(* the call (op, args) with its result; Return lets the caller go on to    *)
(* the next call.  An integer result (usize, an enum variant) is held in   *)
(* ret, a bool result in ret_bool, a MotionVector in ret_mv, the edge      *)
(* buffer get_intra_edges returns in edge_buf, and the calls a prediction  *)
(* function makes to the kernels of crate::predict and crate::mc, in       *)
(* order, in calls.  A Rust panic (panic!, unreachable!, a failed assert!  *)
(* or bounds check) is the result Panic in ret.                            *)
(***************************************************************************)
EXTENDS Integers, Naturals, Sequences, FiniteSets, TLC

VARIABLES pc, op, args, ret, ret_bool, ret_mv, edge_buf, calls, params

vars == <<pc, op, args, ret, ret_bool, ret_mv, edge_buf, calls, params>>

\* ---- bounds of the explored inputs ----
\* block offsets range over 0..MaxBo in each axis (two superblocks of 16 units)
MaxBo == 31
\* from_width_and_height is called with every width and height in 1..MaxDim
MaxDim == 128
\* motion-vector components range over -MaxMv..MaxMv and over the MvEdge + 1
\* values at each end of the i16 range
MaxMv == 20
MvEdge == 8
\* a motion vector is divided by every divisor in -MaxDivisor..MaxDivisor
MaxDivisor == 8
\* get_intra_edges is called at x and y in {0, 4, .., 4 * MaxPosMi} of a
\* plane region of RegionWidth x RegionHeight pixels
MaxPosMi == 3
RegionWidth == 76
RegionHeight == 76
\* the reference plane of get_params is RecWidth x RecHeight pixels with
\* RecOrigin pixels of padding before it on each axis
RecWidth == 64
RecHeight == 32
RecOrigin == 4
\* the memory the edge buffer is made of holds a uniform fill or a sequence
\* of stride 7919 * k, k in 1..MaxUninitStride
MaxUninitStride == 1

\* result of a call that aborts: panic!, unreachable!, index out of bounds
Panic == -1

\* enum RefType: each variant is its discriminant (`self as usize`)
INTRA_FRAME == 0
LAST_FRAME == 1
LAST2_FRAME == 2
LAST3_FRAME == 3
GOLDEN_FRAME == 4
BWDREF_FRAME == 5
ALTREF2_FRAME == 6
ALTREF_FRAME == 7
NONE_FRAME == 8

\* enum PartitionType: each variant is its discriminant (`self as usize`)
PARTITION_NONE == 0
PARTITION_HORZ == 1
PARTITION_VERT == 2
PARTITION_SPLIT == 3
PARTITION_HORZ_A == 4
PARTITION_HORZ_B == 5
PARTITION_VERT_A == 6
PARTITION_VERT_B == 7
PARTITION_HORZ_4 == 8
PARTITION_VERT_4 == 9
PARTITION_INVALID == 10

\* enum BlockSize: each variant is its discriminant (`self as usize`)
BLOCK_4X4 == 0
BLOCK_4X8 == 1
BLOCK_8X4 == 2
BLOCK_8X8 == 3
BLOCK_8X16 == 4
BLOCK_16X8 == 5
BLOCK_16X16 == 6
BLOCK_16X32 == 7
BLOCK_32X16 == 8
BLOCK_32X32 == 9
BLOCK_32X64 == 10
BLOCK_64X32 == 11
BLOCK_64X64 == 12
BLOCK_64X128 == 13
BLOCK_128X64 == 14
BLOCK_128X128 == 15
BLOCK_4X16 == 16
BLOCK_16X4 == 17
BLOCK_8X32 == 18
BLOCK_32X8 == 19
BLOCK_16X64 == 20
BLOCK_64X16 == 21
BLOCK_INVALID == 22

\* enum TxSize: each variant is its discriminant (`self as usize`)
TX_4X4 == 0
TX_8X8 == 1
TX_16X16 == 2
TX_32X32 == 3
TX_64X64 == 4
TX_4X8 == 5
TX_8X4 == 6
TX_8X16 == 7
TX_16X8 == 8
TX_16X32 == 9
TX_32X16 == 10
TX_32X64 == 11
TX_64X32 == 12
TX_4X16 == 13
TX_16X4 == 14
TX_8X32 == 15
TX_32X8 == 16
TX_16X64 == 17
TX_64X16 == 18

\* enum PredictionMode: each variant is its discriminant
DC_PRED == 0
V_PRED == 1
H_PRED == 2
D45_PRED == 3
D135_PRED == 4
D117_PRED == 5
D153_PRED == 6
D207_PRED == 7
D63_PRED == 8
SMOOTH_PRED == 9
SMOOTH_V_PRED == 10
SMOOTH_H_PRED == 11
PAETH_PRED == 12
UV_CFL_PRED == 13
NEARESTMV == 14
NEAR0MV == 15
NEAR1MV == 16
NEAR2MV == 17
GLOBALMV == 18
NEWMV == 19
NEAREST_NEARESTMV == 20
NEAR_NEARMV == 21
NEAREST_NEWMV == 22
NEW_NEARESTMV == 23
NEAR_NEWMV == 24
NEW_NEARMV == 25
GLOBAL_GLOBALMV == 26
NEW_NEWMV == 27

RefTypes == INTRA_FRAME..NONE_FRAME
PartitionTypes == PARTITION_NONE..PARTITION_INVALID
\* the 22 valid block sizes (BLOCK_SIZES_ALL)
BlockSizes == BLOCK_4X4..BLOCK_64X16
\* every value of the enum, BLOCK_INVALID included
BlockSizeValues == BLOCK_4X4..BLOCK_INVALID
TxSizes == TX_4X4..TX_64X16
PredictionModes == DC_PRED..NEW_NEWMV
\* the 14 intra-class modes
IntraModes == DC_PRED..UV_CFL_PRED

\* ---- integer helpers ----
\* a << n on unsigned integers far from overflow
Shl(a, n) == a * (2 ^ n)

\* a >> n on unsigned integers
Shr(a, n) == a \div (2 ^ n)

\* usize::max
Max(a, b) == IF a >= b THEN a ELSE b

\* usize::min
Min(a, b) == IF a <= b THEN a ELSE b

\* a & b on unsigned integers
RECURSIVE BitAnd(_, _)
BitAnd(a, b) ==
  IF a = 0 \/ b = 0 THEN 0
  ELSE (a % 2) * (b % 2) + 2 * BitAnd(a \div 2, b \div 2)

\* ---- constants of crate::context, used by partition.rs ----
MI_SIZE_LOG2 == 2
LOCAL_BLOCK_MASK == 15
MAX_TX_SIZE == 64

\* ---- RefType ----
\* to_index returning the discriminant itself
to_index_no_offset(self) ==
  IF self = NONE_FRAME THEN Panic
  ELSE IF self = INTRA_FRAME THEN Panic
  ELSE self

\* convert to a ref list index, 0-6; panics for NONE_FRAME and INTRA_FRAME
to_index(self) ==
  IF self = NONE_FRAME THEN Panic
  ELSE IF self = INTRA_FRAME THEN Panic
  ELSE self - 1

is_fwd_ref(self) == self < 5

is_bwd_ref(self) == self >= 5

ALL_INTER_REFS ==
  << LAST_FRAME, LAST2_FRAME, LAST3_FRAME, GOLDEN_FRAME,
     BWDREF_FRAME, ALTREF2_FRAME, ALTREF_FRAME >>

FWD_REFS == 4
BWD_REFS == 3
SINGLE_REFS == 7

\* ---- BlockSize ----
BLOCK_SIZES_ALL == 22

BLOCK_SIZE_WIDTH_LOG2 ==
  << 2, 2, 3, 3, 3, 4, 4, 4, 5, 5, 5, 6, 6, 6, 7, 7, 2, 4, 3, 5, 4, 6 >>

BLOCK_SIZE_HEIGHT_LOG2 ==
  << 2, 3, 2, 3, 4, 3, 4, 5, 4, 5, 6, 5, 6, 7, 6, 7, 4, 2, 5, 3, 6, 4 >>

\* the match of from_width_and_height, arm by arm; `_ => unreachable!()`
from_width_and_height(w, h) ==
  CASE w = 4 /\ h = 4 -> BLOCK_4X4
    [] w = 4 /\ h = 8 -> BLOCK_4X8
    [] w = 8 /\ h = 4 -> BLOCK_8X4
    [] w = 8 /\ h = 8 -> BLOCK_8X8
    [] w = 8 /\ h = 16 -> BLOCK_8X16
    [] w = 16 /\ h = 8 -> BLOCK_16X8
    [] w = 16 /\ h = 16 -> BLOCK_16X16
    [] w = 16 /\ h = 32 -> BLOCK_16X32
    [] w = 32 /\ h = 16 -> BLOCK_32X16
    [] w = 32 /\ h = 32 -> BLOCK_32X32
    [] w = 32 /\ h = 64 -> BLOCK_32X64
    [] w = 64 /\ h = 32 -> BLOCK_64X32
    [] w = 64 /\ h = 64 -> BLOCK_64X64
    [] w = 64 /\ h = 128 -> BLOCK_64X128
    [] w = 128 /\ h = 64 -> BLOCK_128X64
    [] w = 128 /\ h = 128 -> BLOCK_128X128
    [] w = 4 /\ h = 16 -> BLOCK_4X16
    [] w = 16 /\ h = 4 -> BLOCK_16X4
    [] w = 8 /\ h = 32 -> BLOCK_8X32
    [] w = 32 /\ h = 8 -> BLOCK_32X8
    [] w = 16 /\ h = 64 -> BLOCK_16X64
    [] w = 64 /\ h = 16 -> BLOCK_64X16
    [] OTHER -> Panic

\* BlockSize_width_log2 reading the height table
BlockSize_width_log2_from_height_table(self) == BLOCK_SIZE_HEIGHT_LOG2[self + 1]

\* tables are indexed by `self as usize`; TLA+ sequences start at 1
BlockSize_width_log2(self) == BLOCK_SIZE_WIDTH_LOG2[self + 1]

BlockSize_width(self) == Shl(1, BlockSize_width_log2(self))

BlockSize_width_mi(self) == Shr(BlockSize_width(self), MI_SIZE_LOG2)

BlockSize_height_log2(self) == BLOCK_SIZE_HEIGHT_LOG2[self + 1]

BlockSize_height(self) == Shl(1, BlockSize_height_log2(self))

BlockSize_height_mi(self) == Shr(BlockSize_height(self), MI_SIZE_LOG2)

\* greater_than satisfied by one strictly larger dimension alone
greater_than_either(self, other) ==
  \/ BlockSize_width(self) > BlockSize_width(other)
  \/ BlockSize_height(self) > BlockSize_height(other)

greater_than(self, other) ==
  \/ (BlockSize_width(self) > BlockSize_width(other)
       /\ BlockSize_height(self) >= BlockSize_height(other))
  \/ (BlockSize_width(self) >= BlockSize_width(other)
       /\ BlockSize_height(self) > BlockSize_height(other))

gte(self, other) ==
  \/ greater_than(self, other)
  \/ (BlockSize_width(self) = BlockSize_width(other)
       /\ BlockSize_height(self) = BlockSize_height(other))

\* SUBSIZE_LOOKUP[partition][block]: one row of 22 entries per partition type
SUBSIZE_LOOKUP ==
  <<
    \* PARTITION_NONE
    << BLOCK_4X4, BLOCK_4X8, BLOCK_8X4, BLOCK_8X8,
       BLOCK_8X16, BLOCK_16X8, BLOCK_16X16, BLOCK_16X32,
       BLOCK_32X16, BLOCK_32X32, BLOCK_32X64, BLOCK_64X32,
       BLOCK_64X64, BLOCK_64X128, BLOCK_128X64, BLOCK_128X128,
       BLOCK_4X16, BLOCK_16X4, BLOCK_8X32, BLOCK_32X8,
       BLOCK_16X64, BLOCK_64X16 >>,
    \* PARTITION_HORZ
    << BLOCK_INVALID, BLOCK_INVALID, BLOCK_INVALID, BLOCK_8X4,
       BLOCK_INVALID, BLOCK_INVALID, BLOCK_16X8, BLOCK_INVALID,
       BLOCK_INVALID, BLOCK_32X16, BLOCK_INVALID, BLOCK_INVALID,
       BLOCK_64X32, BLOCK_INVALID, BLOCK_INVALID, BLOCK_128X64,
       BLOCK_INVALID, BLOCK_INVALID, BLOCK_INVALID, BLOCK_INVALID,
       BLOCK_INVALID, BLOCK_INVALID >>,
    \* PARTITION_VERT
    << BLOCK_INVALID, BLOCK_INVALID, BLOCK_INVALID, BLOCK_4X8,
       BLOCK_INVALID, BLOCK_INVALID, BLOCK_8X16, BLOCK_INVALID,
       BLOCK_INVALID, BLOCK_16X32, BLOCK_INVALID, BLOCK_INVALID,
       BLOCK_32X64, BLOCK_INVALID, BLOCK_INVALID, BLOCK_64X128,
       BLOCK_INVALID, BLOCK_INVALID, BLOCK_INVALID, BLOCK_INVALID,
       BLOCK_INVALID, BLOCK_INVALID >>,
    \* PARTITION_SPLIT
    << BLOCK_INVALID, BLOCK_INVALID, BLOCK_INVALID, BLOCK_4X4,
       BLOCK_INVALID, BLOCK_INVALID, BLOCK_8X8, BLOCK_INVALID,
       BLOCK_INVALID, BLOCK_16X16, BLOCK_INVALID, BLOCK_INVALID,
       BLOCK_32X32, BLOCK_INVALID, BLOCK_INVALID, BLOCK_64X64,
       BLOCK_INVALID, BLOCK_INVALID, BLOCK_INVALID, BLOCK_INVALID,
       BLOCK_INVALID, BLOCK_INVALID >>,
    \* PARTITION_HORZ_A
    << BLOCK_INVALID, BLOCK_INVALID, BLOCK_INVALID, BLOCK_8X4,
       BLOCK_INVALID, BLOCK_INVALID, BLOCK_16X8, BLOCK_INVALID,
       BLOCK_INVALID, BLOCK_32X16, BLOCK_INVALID, BLOCK_INVALID,
       BLOCK_64X32, BLOCK_INVALID, BLOCK_INVALID, BLOCK_128X64,
       BLOCK_INVALID, BLOCK_INVALID, BLOCK_INVALID, BLOCK_INVALID,
       BLOCK_INVALID, BLOCK_INVALID >>,
    \* PARTITION_HORZ_B
    << BLOCK_INVALID, BLOCK_INVALID, BLOCK_INVALID, BLOCK_8X4,
       BLOCK_INVALID, BLOCK_INVALID, BLOCK_16X8, BLOCK_INVALID,
       BLOCK_INVALID, BLOCK_32X16, BLOCK_INVALID, BLOCK_INVALID,
       BLOCK_64X32, BLOCK_INVALID, BLOCK_INVALID, BLOCK_128X64,
       BLOCK_INVALID, BLOCK_INVALID, BLOCK_INVALID, BLOCK_INVALID,
       BLOCK_INVALID, BLOCK_INVALID >>,
    \* PARTITION_VERT_A
    << BLOCK_INVALID, BLOCK_INVALID, BLOCK_INVALID, BLOCK_4X8,
       BLOCK_INVALID, BLOCK_INVALID, BLOCK_8X16, BLOCK_INVALID,
       BLOCK_INVALID, BLOCK_16X32, BLOCK_INVALID, BLOCK_INVALID,
       BLOCK_32X64, BLOCK_INVALID, BLOCK_INVALID, BLOCK_64X128,
       BLOCK_INVALID, BLOCK_INVALID, BLOCK_INVALID, BLOCK_INVALID,
       BLOCK_INVALID, BLOCK_INVALID >>,
    \* PARTITION_VERT_B
    << BLOCK_INVALID, BLOCK_INVALID, BLOCK_INVALID, BLOCK_4X8,
       BLOCK_INVALID, BLOCK_INVALID, BLOCK_8X16, BLOCK_INVALID,
       BLOCK_INVALID, BLOCK_16X32, BLOCK_INVALID, BLOCK_INVALID,
       BLOCK_32X64, BLOCK_INVALID, BLOCK_INVALID, BLOCK_64X128,
       BLOCK_INVALID, BLOCK_INVALID, BLOCK_INVALID, BLOCK_INVALID,
       BLOCK_INVALID, BLOCK_INVALID >>,
    \* PARTITION_HORZ_4
    << BLOCK_INVALID, BLOCK_INVALID, BLOCK_INVALID, BLOCK_INVALID,
       BLOCK_INVALID, BLOCK_INVALID, BLOCK_16X4, BLOCK_INVALID,
       BLOCK_INVALID, BLOCK_32X8, BLOCK_INVALID, BLOCK_INVALID,
       BLOCK_64X16, BLOCK_INVALID, BLOCK_INVALID, BLOCK_INVALID,
       BLOCK_INVALID, BLOCK_INVALID, BLOCK_INVALID, BLOCK_INVALID,
       BLOCK_INVALID, BLOCK_INVALID >>,
    \* PARTITION_VERT_4
    << BLOCK_INVALID, BLOCK_INVALID, BLOCK_INVALID, BLOCK_INVALID,
       BLOCK_INVALID, BLOCK_INVALID, BLOCK_4X16, BLOCK_INVALID,
       BLOCK_INVALID, BLOCK_8X32, BLOCK_INVALID, BLOCK_INVALID,
       BLOCK_16X64, BLOCK_INVALID, BLOCK_INVALID, BLOCK_INVALID,
       BLOCK_INVALID, BLOCK_INVALID, BLOCK_INVALID, BLOCK_INVALID,
       BLOCK_INVALID, BLOCK_INVALID >>
  >>

\* subsize reading the row after the partition's own
\* subsize that reads the PARTITION_VERT row for PARTITION_HORZ and back
subsize_horz_vert_swapped(self, partition) ==
  LET row == IF partition = PARTITION_HORZ THEN PARTITION_VERT
             ELSE IF partition = PARTITION_VERT THEN PARTITION_HORZ
             ELSE partition
  IN IF row + 1 \in DOMAIN SUBSIZE_LOOKUP
     THEN IF self + 1 \in DOMAIN SUBSIZE_LOOKUP[row + 1]
          THEN SUBSIZE_LOOKUP[row + 1][self + 1]
          ELSE Panic
     ELSE Panic

subsize_next_row(self, partition) ==
  IF partition + 2 \in DOMAIN SUBSIZE_LOOKUP
  THEN IF self + 1 \in DOMAIN SUBSIZE_LOOKUP[partition + 2]
       THEN SUBSIZE_LOOKUP[partition + 2][self + 1]
       ELSE Panic
  ELSE Panic

\* the two array accesses are bounds checked: PARTITION_INVALID and
\* BLOCK_INVALID index past the table and panic
subsize(self, partition) ==
  IF partition + 1 \in DOMAIN SUBSIZE_LOOKUP
  THEN IF self + 1 \in DOMAIN SUBSIZE_LOOKUP[partition + 1]
       THEN SUBSIZE_LOOKUP[partition + 1][self + 1]
       ELSE Panic
  ELSE Panic

\* ---- TxSize ----
TxSize_width_log2(self) ==
  CASE self \in {TX_4X4, TX_4X8, TX_4X16} -> 2
    [] self \in {TX_8X8, TX_8X4, TX_8X16, TX_8X32} -> 3
    [] self \in {TX_16X16, TX_16X8, TX_16X32, TX_16X4, TX_16X64} -> 4
    [] self \in {TX_32X32, TX_32X16, TX_32X64, TX_32X8} -> 5
    [] self \in {TX_64X64, TX_64X32, TX_64X16} -> 6

TxSize_width(self) == Shl(1, TxSize_width_log2(self))

TxSize_height_log2(self) ==
  CASE self \in {TX_4X4, TX_8X4, TX_16X4} -> 2
    [] self \in {TX_8X8, TX_4X8, TX_16X8, TX_32X8} -> 3
    [] self \in {TX_16X16, TX_8X16, TX_32X16, TX_4X16, TX_64X16} -> 4
    [] self \in {TX_32X32, TX_16X32, TX_64X32, TX_8X32} -> 5
    [] self \in {TX_64X64, TX_32X64, TX_16X64} -> 6

TxSize_height(self) == Shl(1, TxSize_height_log2(self))

sqr(self) ==
  CASE self \in {TX_4X4, TX_4X8, TX_8X4, TX_4X16, TX_16X4} -> TX_4X4
    [] self \in {TX_8X8, TX_8X16, TX_16X8, TX_8X32, TX_32X8} -> TX_8X8
    [] self \in {TX_16X16, TX_16X32, TX_32X16, TX_16X64, TX_64X16} -> TX_16X16
    [] self \in {TX_32X32, TX_32X64, TX_64X32} -> TX_32X32
    [] self \in {TX_64X64} -> TX_64X64

\* sqr_up rounding down to the square of the smaller dimension, as sqr does
sqr_up_rounds_down(self) == sqr(self)

sqr_up(self) ==
  CASE self \in {TX_4X4} -> TX_4X4
    [] self \in {TX_8X8, TX_4X8, TX_8X4} -> TX_8X8
    [] self \in {TX_16X16, TX_8X16, TX_16X8, TX_4X16, TX_16X4} -> TX_16X16
    [] self \in {TX_32X32, TX_16X32, TX_32X16, TX_8X32, TX_32X8} -> TX_32X32
    [] self \in {TX_64X64, TX_32X64, TX_64X32, TX_16X64, TX_64X16} -> TX_64X64

\* ---- MotionVector ----
\* the range of the i16 components
I16_MIN == -32768
I16_MAX == 32767

i16_in_range(v) == I16_MIN <= v /\ v <= I16_MAX

\* the value an overflowing operation leaves in a build without overflow
\* checks (a build with them panics instead)
i16_wrap(v) == ((v - I16_MIN) % 65536) + I16_MIN

\* division rounding toward minus infinity, as `>> 3` would
i16_div_floor(a, b) == IF b > 0 THEN a \div b ELSE (-a) \div (-b)

\* `/` on i16, for a divisor other than zero: the quotient of the
\* magnitudes, negative when the signs differ (truncates toward zero)
i16_div(a, b) ==
  LET q == (IF a >= 0 THEN a ELSE -a) \div (IF b > 0 THEN b ELSE -b)
  IN IF (a >= 0) = (b > 0) THEN q ELSE -q

\* `/` on i16 panics: division by zero, or I16_MIN / -1, whose quotient is
\* no i16 ("attempt to divide with overflow", in every build)
i16_div_panics(a, b) == b = 0 \/ (a = I16_MIN /\ b = -1)

\* impl ops::Div<i16> for MotionVector panics
mv_div_panics(self, rhs) ==
  i16_div_panics(self.row, rhs) \/ i16_div_panics(self.col, rhs)

\* impl ops::Div<i16> for MotionVector, when it does not panic
mv_div(self, rhs) ==
  [row |-> i16_div(self.row, rhs), col |-> i16_div(self.col, rhs)]

\* some multiplication of quantize_to_fullpel leaves the i16 range
quantize_to_fullpel_overflows(self) ==
  \/ ~i16_in_range(i16_div(self.row, 8) * 8)
  \/ ~i16_in_range(i16_div(self.col, 8) * 8)

quantize_to_fullpel(self) ==
  [row |-> i16_wrap(i16_div(self.row, 8) * 8),
   col |-> i16_wrap(i16_div(self.col, 8) * 8)]

is_zero(self) == self.row = 0 /\ self.col = 0

\* ---- neighbour availability ----
\* a coordinate left unmasked
local_mask_none(v) == v

\* `bo.y & LOCAL_BLOCK_MASK`, `bo.x & LOCAL_BLOCK_MASK`: the coordinate
\* within the superblock
local_mask(v) == BitAnd(v, LOCAL_BLOCK_MASK)

\* the size test against a 128x128 superblock
exceeds_superblock_128(bs) == bs > BlockSize_width_mi(BLOCK_128X128)

\* `if bs > BLOCK_64X64.width_mi() { return false; }`
exceeds_superblock(bs) == bs > BlockSize_width_mi(BLOCK_64X64)

\* the `while bs < sb_mi_size` loop of has_tr, from the value of bs and of
\* has_tr on entry to an iteration
RECURSIVE has_tr_loop(_, _, _, _, _)
has_tr_loop(bs, mask_row, mask_col, sb_mi_size, has_tr_in) ==
  IF bs < sb_mi_size
  THEN IF BitAnd(mask_col, bs) # 0
       THEN IF BitAnd(mask_col, 2 * bs) # 0 /\ BitAnd(mask_row, 2 * bs) # 0
            THEN FALSE
            ELSE has_tr_loop(Shl(bs, 1), mask_row, mask_col, sb_mi_size,
                             has_tr_in)
       ELSE has_tr_in
  ELSE has_tr_in

\* has_tr after the bit test and the loop, before the two overrides
has_tr_scan(bo, bsize) ==
  LET sb_mi_size == BlockSize_width_mi(BLOCK_64X64)
      mask_row == local_mask(bo.y)
      mask_col == local_mask(bo.x)
      target_n4_w == BlockSize_width_mi(bsize)
      target_n4_h == BlockSize_height_mi(bsize)
      bs == Max(target_n4_w, target_n4_h)
      has_tr_0 == ~(BitAnd(mask_row, bs) # 0 /\ BitAnd(mask_col, bs) # 0)
  IN has_tr_loop(bs, mask_row, mask_col, sb_mi_size, has_tr_0)

\* the overrides of has_tr with the test on bo.x inverted
has_tr_overrides_inverted(bo, bsize, has_tr_in) ==
  LET target_n4_w == BlockSize_width_mi(bsize)
      target_n4_h == BlockSize_height_mi(bsize)
      has_tr_1 == IF target_n4_w < target_n4_h
                     /\ BitAnd(bo.x, target_n4_w) # 0
                  THEN TRUE ELSE has_tr_in
  IN IF target_n4_w > target_n4_h /\ BitAnd(bo.y, target_n4_h) # 0
     THEN FALSE ELSE has_tr_1

\* the two overrides of has_tr: the left hand of two vertical rectangles
\* always has a top right, the bottom of two horizontal rectangles never has
has_tr_overrides(bo, bsize, has_tr_in) ==
  LET target_n4_w == BlockSize_width_mi(bsize)
      target_n4_h == BlockSize_height_mi(bsize)
      has_tr_1 == IF target_n4_w < target_n4_h
                     /\ BitAnd(bo.x, target_n4_w) = 0
                  THEN TRUE ELSE has_tr_in
  IN IF target_n4_w > target_n4_h /\ BitAnd(bo.y, target_n4_h) # 0
     THEN FALSE ELSE has_tr_1

has_tr(bo, bsize) ==
  LET target_n4_w == BlockSize_width_mi(bsize)
      target_n4_h == BlockSize_height_mi(bsize)
      bs == Max(target_n4_w, target_n4_h)
  IN IF exceeds_superblock(bs)
     THEN FALSE
     ELSE has_tr_overrides(bo, bsize, has_tr_scan(bo, bsize))

\* the loop of has_bl clearing the flag where the code sets it
RECURSIVE has_bl_loop_clears(_, _, _, _, _)
has_bl_loop_clears(bs, mask_row, mask_col, sb_mi_size, has_bl_in) ==
  IF 2 * bs < sb_mi_size
  THEN IF BitAnd(mask_col, bs) = 0
       THEN IF BitAnd(mask_col, 2 * bs) = 0 /\ BitAnd(mask_row, 2 * bs) = 0
            THEN FALSE
            ELSE has_bl_loop_clears(Shl(bs, 1), mask_row, mask_col,
                                    sb_mi_size, has_bl_in)
       ELSE has_bl_in
  ELSE has_bl_in

\* the `while 2 * bs < sb_mi_size` loop of has_bl
RECURSIVE has_bl_loop(_, _, _, _, _)
has_bl_loop(bs, mask_row, mask_col, sb_mi_size, has_bl_in) ==
  IF 2 * bs < sb_mi_size
  THEN IF BitAnd(mask_col, bs) = 0
       THEN IF BitAnd(mask_col, 2 * bs) = 0 /\ BitAnd(mask_row, 2 * bs) = 0
            THEN TRUE
            ELSE has_bl_loop(Shl(bs, 1), mask_row, mask_col, sb_mi_size,
                             has_bl_in)
       ELSE has_bl_in
  ELSE has_bl_in

\* has_bl after the bit test and the loop, before the two overrides
has_bl_scan(bo, bsize) ==
  LET sb_mi_size == BlockSize_width_mi(BLOCK_64X64)
      mask_row == local_mask(bo.y)
      mask_col == local_mask(bo.x)
      target_n4_w == BlockSize_width_mi(bsize)
      target_n4_h == BlockSize_height_mi(bsize)
      bs == Max(target_n4_w, target_n4_h)
      has_bl_0 == BitAnd(mask_row, bs) = 0 /\ BitAnd(mask_col, bs) = 0
                    /\ bs < sb_mi_size
  IN has_bl_loop(bs, mask_row, mask_col, sb_mi_size, has_bl_0)

\* the two overrides of has_bl: the right hand of two vertical rectangles
\* never has a bottom left, the top of two horizontal rectangles always has
has_bl_overrides(bo, bsize, has_bl_in) ==
  LET target_n4_w == BlockSize_width_mi(bsize)
      target_n4_h == BlockSize_height_mi(bsize)
      has_bl_1 == IF target_n4_w < target_n4_h
                     /\ BitAnd(bo.x, target_n4_w) # 0
                  THEN FALSE ELSE has_bl_in
  IN IF target_n4_w > target_n4_h /\ BitAnd(bo.y, target_n4_h) = 0
     THEN TRUE ELSE has_bl_1

has_bl(bo, bsize) ==
  LET target_n4_w == BlockSize_width_mi(bsize)
      target_n4_h == BlockSize_height_mi(bsize)
      bs == Max(target_n4_w, target_n4_h)
  IN IF exceeds_superblock(bs)
     THEN FALSE
     ELSE has_bl_overrides(bo, bsize, has_bl_scan(bo, bsize))

\* ---- get_intra_edges ----
\* Option<PredictionMode>::None
None == -1

\* dst[row][col], the reconstructed pixel of the plane region.  The code
\* copies pixels without looking at them, so one plane whose pixels are all
\* different (and different from the defaults base - 1, base, base + 1) stands
\* for every plane; T is u16.
dst(row, col) == 1000 + 256 * row + col

\* the edge buffer split as the code splits it: left (2 * MAX_TX_SIZE
\* entries, bottom to top, right-aligned), top_left (1), above (the rest).
\* The buffer starts uninitialized: an entry that is never written holds an
\* indeterminate value, whatever the memory of the array happened to hold.
\* uninit is that memory, entry by entry: any function from the 4 *
\* MAX_TX_SIZE + 1 indices of the array to u16.
UninitializedAlignedArray(uninit) ==
  [left |-> [i \in 0..(2 * MAX_TX_SIZE - 1) |-> uninit[i]],
   top_left |-> [i \in 0..0 |-> uninit[2 * MAX_TX_SIZE]],
   above |-> [i \in 0..(2 * MAX_TX_SIZE - 1) |->
                uninit[2 * MAX_TX_SIZE + 1 + i]]]

\* `let base = 128u16 << (bit_depth - 8)`
edge_base(bit_depth) == Shl(128, bit_depth - 8)

\* edge_mode that degenerates PAETH_PRED to V_PRED on the top row and to
\* H_PRED on the left column
edge_mode_swapped(mode, x, y) ==
  IF mode = PAETH_PRED
  THEN CASE x = 0 /\ y = 0 -> DC_PRED
         [] y = 0 -> V_PRED
         [] x = 0 -> H_PRED
         [] OTHER -> PAETH_PRED
  ELSE mode

\* the mode the edge needs are derived from: PAETH_PRED degenerates at the
\* edges of the region
edge_mode(mode, x, y) ==
  IF mode = PAETH_PRED
  THEN CASE x = 0 /\ y = 0 -> DC_PRED
         [] y = 0 -> H_PRED
         [] x = 0 -> V_PRED
         [] OTHER -> PAETH_PRED
  ELSE mode

\* edge_needs that asks for the left and top samples of DC and CFL at the
\* edges of the region too
edge_needs_dc_everywhere(opt_mode, x, y) ==
  IF opt_mode = None
  THEN [left |-> TRUE, topleft |-> TRUE, top |-> TRUE, topright |-> TRUE,
        bottomleft |-> TRUE]
  ELSE LET mode == edge_mode(opt_mode, x, y)
       IN [left |-> mode # V_PRED
                      /\ ~(mode = D45_PRED \/ mode = D63_PRED),
           topleft |-> mode = PAETH_PRED \/ mode = D117_PRED
                         \/ mode = D135_PRED \/ mode = D153_PRED,
           top |-> mode # H_PRED,
           topright |-> mode = D45_PRED \/ mode = D63_PRED,
           bottomleft |-> mode = D207_PRED]

\* needs_left, needs_topleft, needs_top, needs_topright, needs_bottomleft
edge_needs(opt_mode, x, y) ==
  IF opt_mode = None
  THEN [left |-> TRUE, topleft |-> TRUE, top |-> TRUE, topright |-> TRUE,
        bottomleft |-> TRUE]
  ELSE LET mode == edge_mode(opt_mode, x, y)
           dc_or_cfl == mode = DC_PRED \/ mode = UV_CFL_PRED
       IN [left |-> mode # V_PRED /\ (~dc_or_cfl \/ x # 0)
                      /\ ~(mode = D45_PRED \/ mode = D63_PRED),
           topleft |-> mode = PAETH_PRED \/ mode = D117_PRED
                         \/ mode = D135_PRED \/ mode = D153_PRED,
           top |-> mode # H_PRED /\ (~dc_or_cfl \/ y # 0),
           topright |-> mode = D45_PRED \/ mode = D63_PRED,
           bottomleft |-> mode = D207_PRED]

\* `// Needs left`: the left slice after the block
edge_left(left, x, y, tx_size, base) ==
  LET h == TxSize_height(tx_size)
      first == 2 * MAX_TX_SIZE - h
      val == IF y # 0 THEN dst(y - 1, 0) ELSE base + 1
  IN IF x # 0
     THEN [j \in DOMAIN left |->
             IF j >= first /\ j < first + h
             THEN dst(y + h - 1 - (j - first), x - 1)
             ELSE left[j]]
     ELSE [j \in DOMAIN left |-> IF j >= first THEN val ELSE left[j]]

\* edge_top_left that takes the pixel to the left on the left edge
edge_top_left_swapped(x, y, base) ==
  CASE x = 0 /\ y = 0 -> base
    [] x = 0 -> dst(0, x - 1)
    [] y = 0 -> dst(y - 1, 0)
    [] OTHER -> dst(y - 1, x - 1)

\* `// Needs top-left`: the value of top_left[0]
edge_top_left(x, y, base) ==
  CASE x = 0 /\ y = 0 -> base
    [] y = 0 -> dst(0, x - 1)
    [] x = 0 -> dst(y - 1, 0)
    [] OTHER -> dst(y - 1, x - 1)

\* `// Needs top`: the above slice after the block
edge_top(above, x, y, tx_size, base) ==
  LET w == TxSize_width(tx_size)
      val == IF x # 0 THEN dst(0, x - 1) ELSE base - 1
  IN IF y # 0
     THEN [j \in DOMAIN above |->
             IF j < w THEN dst(y - 1, x + j) ELSE above[j]]
     ELSE [j \in DOMAIN above |-> IF j < w THEN val ELSE above[j]]

\* the block offset handed to has_tr and has_bl
edge_bo(x, y, xdec, ydec) == [x |-> Shr(x, 2 - xdec), y |-> Shr(y, 2 - ydec)]

\* the block size handed to has_tr and has_bl, Panic when the dimensions
\* are those of no block size
edge_bsize(tx_size, xdec, ydec) ==
  from_width_and_height(Shl(TxSize_width(tx_size), xdec),
                        Shl(TxSize_height(tx_size), ydec))

\* num_avail of the top-right extension
edge_topright_num_avail(x, y, tx_size, xdec, ydec, rect_width) ==
  IF y # 0 /\ has_tr(edge_bo(x, y, xdec, ydec),
                     edge_bsize(tx_size, xdec, ydec))
  THEN Min(TxSize_width(tx_size), rect_width - x - TxSize_width(tx_size))
  ELSE 0

\* edge_topright that zero-fills the shortfall
edge_topright_zero_fill(above, x, y, tx_size, xdec, ydec, rect_width) ==
  LET w == TxSize_width(tx_size)
      h == TxSize_height(tx_size)
      num_avail ==
        edge_topright_num_avail(x, y, tx_size, xdec, ydec, rect_width)
      copied == [j \in DOMAIN above |->
                   IF j >= w /\ j < w + num_avail
                   THEN dst(y - 1, x + j)
                   ELSE above[j]]
  IN IF num_avail < h
     THEN [j \in DOMAIN above |->
             IF j >= w + num_avail /\ j < w + h THEN 0 ELSE copied[j]]
     ELSE copied

\* `// Needs top right`: the above slice after the block
edge_topright(above, x, y, tx_size, xdec, ydec, rect_width) ==
  LET w == TxSize_width(tx_size)
      h == TxSize_height(tx_size)
      num_avail ==
        edge_topright_num_avail(x, y, tx_size, xdec, ydec, rect_width)
      copied == [j \in DOMAIN above |->
                   IF j >= w /\ j < w + num_avail
                   THEN dst(y - 1, x + j)
                   ELSE above[j]]
      val == copied[w + num_avail - 1]
  IN IF num_avail < h
     THEN [j \in DOMAIN above |->
             IF j >= w + num_avail /\ j < w + h THEN val ELSE copied[j]]
     ELSE copied

\* num_avail of the bottom-left extension
edge_bottomleft_num_avail(x, y, tx_size, xdec, ydec, rect_height) ==
  IF x # 0 /\ has_bl(edge_bo(x, y, xdec, ydec),
                     edge_bsize(tx_size, xdec, ydec))
  THEN Min(TxSize_height(tx_size), rect_height - y - TxSize_height(tx_size))
  ELSE 0

\* `// Needs bottom left`: the left slice after the block
edge_bottomleft(left, x, y, tx_size, xdec, ydec, rect_height) ==
  LET w == TxSize_width(tx_size)
      h == TxSize_height(tx_size)
      num_avail ==
        edge_bottomleft_num_avail(x, y, tx_size, xdec, ydec, rect_height)
      last == 2 * MAX_TX_SIZE - h - 1
      copied == [j \in DOMAIN left |->
                   IF j <= last /\ j > last - num_avail
                   THEN dst(y + h + (last - j), x - 1)
                   ELSE left[j]]
      val == copied[2 * MAX_TX_SIZE - h - num_avail]
  IN IF num_avail < w
     THEN [j \in DOMAIN left |->
             IF j >= 2 * MAX_TX_SIZE - h - w
                  /\ j < 2 * MAX_TX_SIZE - h - num_avail
             THEN val ELSE copied[j]]
     ELSE copied

\* get_intra_edges aborts: an extension is needed and the transform size
\* scaled to the luma plane is no block size (unreachable! of
\* from_width_and_height)
get_intra_edges_panics(po, tx_size, opt_mode, plane_cfg) ==
  LET needs == edge_needs(opt_mode, po.x, po.y)
  IN (needs.topright \/ needs.bottomleft)
       /\ edge_bsize(tx_size, plane_cfg.xdec, plane_cfg.ydec) = Panic

\* get_intra_edges that builds the top-left sample whether needed or not
get_intra_edges_always_topleft(dst_rect, plane_cfg, po, tx_size, bit_depth, opt_mode, uninit) ==
  LET x == po.x
      y == po.y
      base == edge_base(bit_depth)
      needs == edge_needs(opt_mode, x, y)
      buf == UninitializedAlignedArray(uninit)
      left_1 == IF needs.left
                THEN edge_left(buf.left, x, y, tx_size, base)
                ELSE buf.left
      top_left_1 == [i \in 0..0 |-> edge_top_left(x, y, base)]
      above_1 == IF needs.top
                 THEN edge_top(buf.above, x, y, tx_size, base)
                 ELSE buf.above
      above_2 == IF needs.topright
                 THEN edge_topright(above_1, x, y, tx_size, plane_cfg.xdec,
                                    plane_cfg.ydec, dst_rect.width)
                 ELSE above_1
      left_2 == IF needs.bottomleft
                THEN edge_bottomleft(left_1, x, y, tx_size, plane_cfg.xdec,
                                     plane_cfg.ydec, dst_rect.height)
                ELSE left_1
  IN [left |-> left_2, top_left |-> top_left_1, above |-> above_2]

\* the edge buffer get_intra_edges returns when it does not abort; dst_rect
\* is dst.rect(), plane_cfg is dst.plane_cfg, uninit is what the
\* uninitialized buffer held
get_intra_edges(dst_rect, plane_cfg, po, tx_size, bit_depth, opt_mode, uninit) ==
  LET x == po.x
      y == po.y
      base == edge_base(bit_depth)
      needs == edge_needs(opt_mode, x, y)
      buf == UninitializedAlignedArray(uninit)
      left_1 == IF needs.left
                THEN edge_left(buf.left, x, y, tx_size, base)
                ELSE buf.left
      top_left_1 == IF needs.topleft
                    THEN [i \in 0..0 |-> edge_top_left(x, y, base)]
                    ELSE buf.top_left
      above_1 == IF needs.top
                 THEN edge_top(buf.above, x, y, tx_size, base)
                 ELSE buf.above
      above_2 == IF needs.topright
                 THEN edge_topright(above_1, x, y, tx_size, plane_cfg.xdec,
                                    plane_cfg.ydec, dst_rect.width)
                 ELSE above_1
      left_2 == IF needs.bottomleft
                THEN edge_bottomleft(left_1, x, y, tx_size, plane_cfg.xdec,
                                     plane_cfg.ydec, dst_rect.height)
                ELSE left_1
  IN [left |-> left_2, top_left |-> top_left_1, above |-> above_2]

\* ---- predict_intra ----
\* PredictionMode::is_intra
is_intra(self) == self < NEARESTMV

\* the block type B predict_intra instantiates predict_intra_inner with:
\* TX_aXb selects BlockaXb, of width B::W = a and height B::H = b
predict_intra_block(tx_size) ==
  CASE tx_size = TX_4X4 -> [W |-> 4, H |-> 4]
    [] tx_size = TX_8X8 -> [W |-> 8, H |-> 8]
    [] tx_size = TX_16X16 -> [W |-> 16, H |-> 16]
    [] tx_size = TX_32X32 -> [W |-> 32, H |-> 32]
    [] tx_size = TX_64X64 -> [W |-> 64, H |-> 64]
    [] tx_size = TX_4X8 -> [W |-> 4, H |-> 8]
    [] tx_size = TX_8X4 -> [W |-> 8, H |-> 4]
    [] tx_size = TX_8X16 -> [W |-> 8, H |-> 16]
    [] tx_size = TX_16X8 -> [W |-> 16, H |-> 8]
    [] tx_size = TX_16X32 -> [W |-> 16, H |-> 32]
    [] tx_size = TX_32X16 -> [W |-> 32, H |-> 16]
    [] tx_size = TX_32X64 -> [W |-> 32, H |-> 64]
    [] tx_size = TX_64X32 -> [W |-> 64, H |-> 32]
    [] tx_size = TX_4X16 -> [W |-> 4, H |-> 16]
    [] tx_size = TX_16X4 -> [W |-> 16, H |-> 4]
    [] tx_size = TX_8X32 -> [W |-> 8, H |-> 32]
    [] tx_size = TX_32X8 -> [W |-> 32, H |-> 8]
    [] tx_size = TX_16X64 -> [W |-> 16, H |-> 64]
    [] tx_size = TX_64X16 -> [W |-> 64, H |-> 16]

\* the mode predict_intra_inner dispatches: PAETH_PRED degenerates at the
\* edges of the tile, UV_CFL_PRED with a zero alpha is DC_PRED
predict_intra_mode(self, x, y, alpha) ==
  IF self = PAETH_PRED
  THEN CASE x = 0 /\ y = 0 -> DC_PRED
         [] y = 0 -> H_PRED
         [] x = 0 -> V_PRED
         [] OTHER -> PAETH_PRED
  ELSE IF self = UV_CFL_PRED
  THEN IF alpha = 0 THEN DC_PRED ELSE self
  ELSE self

\* one call of a prediction kernel of block type B: the kernel's name, the
\* block dimensions, the arguments it is handed besides dst, and the angle
\* of pred_directional (0 for the other kernels)
KernelCall(kernel, B, reads, angle) ==
  [kernel |-> kernel, W |-> B.W, H |-> B.H, reads |-> reads, angle |-> angle]

\* the arguments of pred_directional besides dst and the angle
DirectionalReads ==
  {"above_slice", "left_and_left_below_slice", "top_left", "bit_depth"}

\* the arguments of the CFL kernels that read the edges
CflEdgeReads == {"ac", "alpha", "bit_depth", "above_slice", "left_slice"}

\* predict_intra_arms with the arms of SMOOTH_H_PRED and SMOOTH_V_PRED
\* dropped
predict_intra_arms_without_smooth ==
  {DC_PRED, UV_CFL_PRED, H_PRED, V_PRED, PAETH_PRED, SMOOTH_PRED,
   D45_PRED, D135_PRED, D117_PRED, D153_PRED, D207_PRED, D63_PRED}

\* the modes the kernel match of predict_intra_inner has an arm for; every
\* other mode reaches `_ => unimplemented!()`
predict_intra_arms ==
  {DC_PRED, UV_CFL_PRED, H_PRED, V_PRED, PAETH_PRED, SMOOTH_PRED,
   SMOOTH_H_PRED, SMOOTH_V_PRED, D45_PRED, D135_PRED, D117_PRED, D153_PRED,
   D207_PRED, D63_PRED}

\* the kernel match of predict_intra_inner with the angles of D135_PRED,
\* D153_PRED and D207_PRED rotated: 157, 203 and 135
predict_intra_kernel_angles_rotated(mode, B, x, y) ==
  CASE mode = DC_PRED ->
         (CASE x = 0 /\ y = 0 -> KernelCall("pred_dc_128", B, {"bit_depth"}, 0)
            [] y = 0 ->
                 KernelCall("pred_dc_left", B, {"above_slice", "left_slice"}, 0)
            [] x = 0 ->
                 KernelCall("pred_dc_top", B, {"above_slice", "left_slice"}, 0)
            [] OTHER ->
                 KernelCall("pred_dc", B, {"above_slice", "left_slice"}, 0))
    [] mode = UV_CFL_PRED ->
         (CASE x = 0 /\ y = 0 ->
                 KernelCall("pred_cfl_128", B, {"ac", "alpha", "bit_depth"}, 0)
            [] y = 0 -> KernelCall("pred_cfl_left", B, CflEdgeReads, 0)
            [] x = 0 -> KernelCall("pred_cfl_top", B, CflEdgeReads, 0)
            [] OTHER -> KernelCall("pred_cfl", B, CflEdgeReads, 0))
    [] mode = H_PRED -> KernelCall("pred_h", B, {"left_slice"}, 0)
    [] mode = V_PRED -> KernelCall("pred_v", B, {"above_slice"}, 0)
    [] mode = PAETH_PRED ->
         KernelCall("pred_paeth", B, {"above_slice", "left_slice", "top_left"}, 0)
    [] mode = SMOOTH_PRED ->
         KernelCall("pred_smooth", B, {"above_slice", "left_slice"}, 0)
    [] mode = SMOOTH_H_PRED ->
         KernelCall("pred_smooth_h", B, {"above_slice", "left_slice"}, 0)
    [] mode = SMOOTH_V_PRED ->
         KernelCall("pred_smooth_v", B, {"above_slice", "left_slice"}, 0)
    [] mode = D45_PRED ->
         KernelCall("pred_directional", B, DirectionalReads, 45)
    [] mode = D135_PRED ->
         KernelCall("pred_directional", B, DirectionalReads, 157)
    [] mode = D117_PRED ->
         KernelCall("pred_directional", B, DirectionalReads, 113)
    [] mode = D153_PRED ->
         KernelCall("pred_directional", B, DirectionalReads, 203)
    [] mode = D207_PRED ->
         KernelCall("pred_directional", B, DirectionalReads, 135)
    [] mode = D63_PRED ->
         KernelCall("pred_directional", B, DirectionalReads, 67)

\* the kernel match of predict_intra_inner with the left-only and top-only DC
\* kernels exchanged
predict_intra_kernel_dc_swapped(mode, B, x, y) ==
  CASE mode = DC_PRED ->
         (CASE x = 0 /\ y = 0 -> KernelCall("pred_dc_128", B, {"bit_depth"}, 0)
            [] y = 0 ->
                 KernelCall("pred_dc_top", B, {"above_slice", "left_slice"}, 0)
            [] x = 0 ->
                 KernelCall("pred_dc_left", B, {"above_slice", "left_slice"}, 0)
            [] OTHER ->
                 KernelCall("pred_dc", B, {"above_slice", "left_slice"}, 0))
    [] mode = UV_CFL_PRED ->
         (CASE x = 0 /\ y = 0 ->
                 KernelCall("pred_cfl_128", B, {"ac", "alpha", "bit_depth"}, 0)
            [] y = 0 -> KernelCall("pred_cfl_left", B, CflEdgeReads, 0)
            [] x = 0 -> KernelCall("pred_cfl_top", B, CflEdgeReads, 0)
            [] OTHER -> KernelCall("pred_cfl", B, CflEdgeReads, 0))
    [] mode = H_PRED -> KernelCall("pred_h", B, {"left_slice"}, 0)
    [] mode = V_PRED -> KernelCall("pred_v", B, {"above_slice"}, 0)
    [] mode = PAETH_PRED ->
         KernelCall("pred_paeth", B, {"above_slice", "left_slice", "top_left"}, 0)
    [] mode = SMOOTH_PRED ->
         KernelCall("pred_smooth", B, {"above_slice", "left_slice"}, 0)
    [] mode = SMOOTH_H_PRED ->
         KernelCall("pred_smooth_h", B, {"above_slice", "left_slice"}, 0)
    [] mode = SMOOTH_V_PRED ->
         KernelCall("pred_smooth_v", B, {"above_slice", "left_slice"}, 0)
    [] mode = D45_PRED ->
         KernelCall("pred_directional", B, DirectionalReads, 45)
    [] mode = D135_PRED ->
         KernelCall("pred_directional", B, DirectionalReads, 135)
    [] mode = D117_PRED ->
         KernelCall("pred_directional", B, DirectionalReads, 113)
    [] mode = D153_PRED ->
         KernelCall("pred_directional", B, DirectionalReads, 157)
    [] mode = D207_PRED ->
         KernelCall("pred_directional", B, DirectionalReads, 203)
    [] mode = D63_PRED ->
         KernelCall("pred_directional", B, DirectionalReads, 67)

\* the kernel match of predict_intra_inner, for a mode with an arm
predict_intra_kernel(mode, B, x, y) ==
  CASE mode = DC_PRED ->
         (CASE x = 0 /\ y = 0 -> KernelCall("pred_dc_128", B, {"bit_depth"}, 0)
            [] y = 0 ->
                 KernelCall("pred_dc_left", B, {"above_slice", "left_slice"}, 0)
            [] x = 0 ->
                 KernelCall("pred_dc_top", B, {"above_slice", "left_slice"}, 0)
            [] OTHER ->
                 KernelCall("pred_dc", B, {"above_slice", "left_slice"}, 0))
    [] mode = UV_CFL_PRED ->
         (CASE x = 0 /\ y = 0 ->
                 KernelCall("pred_cfl_128", B, {"ac", "alpha", "bit_depth"}, 0)
            [] y = 0 -> KernelCall("pred_cfl_left", B, CflEdgeReads, 0)
            [] x = 0 -> KernelCall("pred_cfl_top", B, CflEdgeReads, 0)
            [] OTHER -> KernelCall("pred_cfl", B, CflEdgeReads, 0))
    [] mode = H_PRED -> KernelCall("pred_h", B, {"left_slice"}, 0)
    [] mode = V_PRED -> KernelCall("pred_v", B, {"above_slice"}, 0)
    [] mode = PAETH_PRED ->
         KernelCall("pred_paeth", B, {"above_slice", "left_slice", "top_left"}, 0)
    [] mode = SMOOTH_PRED ->
         KernelCall("pred_smooth", B, {"above_slice", "left_slice"}, 0)
    [] mode = SMOOTH_H_PRED ->
         KernelCall("pred_smooth_h", B, {"above_slice", "left_slice"}, 0)
    [] mode = SMOOTH_V_PRED ->
         KernelCall("pred_smooth_v", B, {"above_slice", "left_slice"}, 0)
    [] mode = D45_PRED ->
         KernelCall("pred_directional", B, DirectionalReads, 45)
    [] mode = D135_PRED ->
         KernelCall("pred_directional", B, DirectionalReads, 135)
    [] mode = D117_PRED ->
         KernelCall("pred_directional", B, DirectionalReads, 113)
    [] mode = D153_PRED ->
         KernelCall("pred_directional", B, DirectionalReads, 157)
    [] mode = D207_PRED ->
         KernelCall("pred_directional", B, DirectionalReads, 203)
    [] mode = D63_PRED ->
         KernelCall("pred_directional", B, DirectionalReads, 67)

\* predict_intra aborts: assert!(self.is_intra()) fails, or the dispatched
\* mode has no arm (unimplemented!)
predict_intra_panics(self, x, y, alpha) ==
  \/ ~is_intra(self)
  \/ predict_intra_mode(self, x, y, alpha) \notin predict_intra_arms

\* the kernel calls predict_intra makes when it does not abort: x and y are
\* the position of dst relative to the tile
predict_intra(self, tile_rect, dst_rect, tx_size, alpha) ==
  LET x == dst_rect.x - tile_rect.x
      y == dst_rect.y - tile_rect.y
  IN << predict_intra_kernel(predict_intra_mode(self, x, y, alpha),
                             predict_intra_block(tx_size), x, y) >>

\* what B::pred_dc_128(dst, bit_depth) writes to every pixel of dst
pred_dc_128(bit_depth) == Shl(128, bit_depth - 8)

\* ---- predict_inter ----
\* ref_frames and mvs are the two-element arrays of the code, indexed from 1
\* here: ref_frames[1] of the code is ref_frames[2].
\* is_compound that only looks for NONE_FRAME
is_compound_none_only(ref_frames) == ref_frames[2] # NONE_FRAME

\* is_compound
is_compound(ref_frames) ==
  ref_frames[2] # INTRA_FRAME /\ ref_frames[2] # NONE_FRAME

\* fi.rec_buffer.frames[fi.ref_frames[ref.to_index()]] is Some: fi is the
\* slot of each reference index (ref_frames) and the set of slots that hold a
\* reconstructed frame (frames)
has_rec(fi, ref) == fi.ref_frames[to_index(ref)] \in fi.frames

\* one call of a motion-compensation kernel: its name, the buffer it writes
\* and what it reads
InterCall(kernel, into, from) ==
  [kernel |-> kernel, into |-> into, from |-> from]

\* predict_inter aborts: assert!(!self.is_intra()) fails, or to_index is
\* called on a reference that is no inter reference
predict_inter_panics(self, ref_frames) ==
  \/ is_intra(self)
  \/ ~is_compound(ref_frames) /\ to_index(ref_frames[1]) = Panic
  \/ is_compound(ref_frames)
       /\ (to_index(ref_frames[1]) = Panic \/ to_index(ref_frames[2]) = Panic)

\* `>>` on i32 with the sign kept only in the magnitude: rounds toward zero
i32_shr_truncating(a, n) ==
  IF a >= 0 THEN a \div (2 ^ n) ELSE -((-a) \div (2 ^ n))

\* `>>` on i32: an arithmetic shift, which rounds toward minus infinity
i32_shr(a, n) == a \div (2 ^ n)

\* PlaneSlice::clamp: the position of a slice moved into the valid region of
\* its plane, from xorigin and yorigin pixels before the plane to its width
\* and height
plane_slice_clamp(cfg, po) ==
  [x |-> Max(Min(po.x, cfg.width), -cfg.xorigin),
   y |-> Max(Min(po.y, cfg.height), -cfg.yorigin)]

\* PlaneSlice::subslice(xo, yo): the position of the slice xo to the right
\* and yo below
plane_subslice(po, xo, yo) == [x |-> po.x + xo, y |-> po.y + yo]

\* get_params of predict_inter, for the configuration rec_cfg of the
\* reference plane: the fractional phases, the offset qo the plane is sliced
\* at, and the position src of the slice returned,
\* rec_plane.slice(qo).clamp().subslice(3, 3)
get_params(rec_cfg, po, mv) ==
  LET shift_row == 3 + rec_cfg.ydec
      shift_col == 3 + rec_cfg.xdec
      row_offset == i32_shr(mv.row, shift_row)
      col_offset == i32_shr(mv.col, shift_col)
      row_frac == Shl(mv.row - Shl(row_offset, shift_row), 4 - shift_row)
      col_frac == Shl(mv.col - Shl(col_offset, shift_col), 4 - shift_col)
      qo == [x |-> po.x + col_offset - 3, y |-> po.y + row_offset - 3]
  IN [row_frac |-> row_frac, col_frac |-> col_frac, qo |-> qo,
      src |-> plane_subslice(plane_slice_clamp(rec_cfg, qo), 3, 3)]

\* the kernel calls predict_inter makes when it does not abort
predict_inter(self, fi, ref_frames) ==
  IF ~is_compound(ref_frames)
  THEN IF has_rec(fi, ref_frames[1])
       THEN << InterCall("put_8tap", "dst", "rec[0]") >>
       ELSE << >>
  ELSE (IF has_rec(fi, ref_frames[1])
        THEN << InterCall("prep_8tap", "tmp[0]", "rec[0]") >>
        ELSE << >>)
       \o (IF has_rec(fi, ref_frames[2])
           THEN << InterCall("prep_8tap", "tmp[1]", "rec[1]") >>
           ELSE << >>)
       \o << InterCall("mc_avg", "dst", "tmp") >>

\* ---- the caller ----
BlockOffsets == [x : 0..MaxBo, y : 0..MaxBo]

NoArgs == << >>

\* results of the kinds a call does not produce
NoMv == [row |-> 0, col |-> 0]
NoEdgeBuf == [left |-> << >>, top_left |-> << >>, above |-> << >>]
NoCalls == << >>
NoParams ==
  [row_frac |-> 0, col_frac |-> 0, qo |-> [x |-> 0, y |-> 0],
   src |-> [x |-> 0, y |-> 0]]

Init ==
  /\ pc = "idle"
  /\ op = "none"
  /\ args = NoArgs
  /\ ret = 0
  /\ ret_bool = FALSE
  /\ ret_mv = NoMv
  /\ edge_buf = NoEdgeBuf
  /\ calls = NoCalls
  /\ params = NoParams

\* the function named o applied to the arguments a has returned
Returned(o, a, r, b, mv, eb, cs) ==
  /\ pc' = "done"
  /\ op' = o
  /\ args' = a
  /\ ret' = r
  /\ ret_bool' = b
  /\ ret_mv' = mv
  /\ edge_buf' = eb
  /\ calls' = cs
  /\ params' = NoParams

\* one call: the function named o applied to the arguments a returned r;
\* every Call_* action is enabled when the caller is idle
Call(o, a, r) == Returned(o, a, r, FALSE, NoMv, NoEdgeBuf, NoCalls)

\* one call of a function that returns bool
CallBool(o, a, r) == Returned(o, a, 0, r, NoMv, NoEdgeBuf, NoCalls)

\* one call of get_intra_edges; r is Panic when it aborted
CallEdges(o, a, r, eb) == Returned(o, a, r, FALSE, NoMv, eb, NoCalls)

\* one call of a prediction function; r is Panic when it aborted, cs are the
\* kernel calls it made
CallKernels(o, a, r, cs) == Returned(o, a, r, FALSE, NoMv, NoEdgeBuf, cs)

\* one call of a function that returns a MotionVector; r is Panic when the
\* arithmetic overflowed
CallMv(o, a, r, mv) == Returned(o, a, r, FALSE, mv, NoEdgeBuf, NoCalls)

\* one call of get_params, which returns the phases and the slice offset
CallParams(o, a, ps) ==
  /\ pc' = "done"
  /\ op' = o
  /\ args' = a
  /\ ret' = 0
  /\ ret_bool' = FALSE
  /\ ret_mv' = NoMv
  /\ edge_buf' = NoEdgeBuf
  /\ calls' = NoCalls
  /\ params' = ps

Call_to_index ==
  /\ pc = "idle"
  /\ \E self \in RefTypes :
       Call("to_index", [self |-> self], to_index(self))

Call_is_fwd_ref ==
  /\ pc = "idle"
  /\ \E self \in RefTypes :
       CallBool("is_fwd_ref", [self |-> self], is_fwd_ref(self))

Call_is_bwd_ref ==
  /\ pc = "idle"
  /\ \E self \in RefTypes :
       CallBool("is_bwd_ref", [self |-> self], is_bwd_ref(self))

Call_from_width_and_height ==
  /\ pc = "idle"
  /\ \E w \in 1..MaxDim, h \in 1..MaxDim :
       Call("from_width_and_height", [w |-> w, h |-> h],
         from_width_and_height(w, h))

Call_BlockSize_width ==
  /\ pc = "idle"
  /\ \E self \in BlockSizes :
       Call("BlockSize::width", [self |-> self], BlockSize_width(self))

Call_BlockSize_height ==
  /\ pc = "idle"
  /\ \E self \in BlockSizes :
       Call("BlockSize::height", [self |-> self], BlockSize_height(self))

Call_greater_than ==
  /\ pc = "idle"
  /\ \E self \in BlockSizes, other \in BlockSizes :
       CallBool("greater_than", [self |-> self, other |-> other],
         greater_than(self, other))

Call_gte ==
  /\ pc = "idle"
  /\ \E self \in BlockSizes, other \in BlockSizes :
       CallBool("gte", [self |-> self, other |-> other], gte(self, other))

Call_subsize ==
  /\ pc = "idle"
  /\ \E self \in BlockSizeValues, partition \in PartitionTypes :
       Call("subsize", [self |-> self, partition |-> partition],
         subsize(self, partition))

Call_TxSize_width ==
  /\ pc = "idle"
  /\ \E self \in TxSizes :
       Call("TxSize::width", [self |-> self], TxSize_width(self))

Call_TxSize_height ==
  /\ pc = "idle"
  /\ \E self \in TxSizes :
       Call("TxSize::height", [self |-> self], TxSize_height(self))

Call_sqr_up ==
  /\ pc = "idle"
  /\ \E self \in TxSizes :
       Call("sqr_up", [self |-> self], sqr_up(self))

MvComponents ==
  (-MaxMv..MaxMv) \cup (I16_MIN..(I16_MIN + MvEdge))
    \cup ((I16_MAX - MvEdge)..I16_MAX)

MotionVectors == [row : MvComponents, col : MvComponents]

Divisors == -MaxDivisor..MaxDivisor

Call_mv_div ==
  /\ pc = "idle"
  /\ \E self \in MotionVectors, rhs \in Divisors :
       IF mv_div_panics(self, rhs)
       THEN CallMv("MotionVector::div", [self |-> self, rhs |-> rhs], Panic,
                   NoMv)
       ELSE CallMv("MotionVector::div", [self |-> self, rhs |-> rhs], 0,
                   mv_div(self, rhs))

Call_quantize_to_fullpel ==
  /\ pc = "idle"
  /\ \E self \in MotionVectors :
       CallMv("quantize_to_fullpel", [self |-> self],
              IF quantize_to_fullpel_overflows(self) THEN Panic ELSE 0,
              quantize_to_fullpel(self))

EdgePositions ==
  [x : {4 * k : k \in 0..MaxPosMi}, y : {4 * k : k \in 0..MaxPosMi}]

PlaneConfigs == [xdec : {0, 1}, ydec : {0, 1}]

BitDepths == {8, 10}

\* one content of the memory of the edge buffer: entry k holds start plus k
\* steps of a stride, as a u16; stride 0 is a uniform fill
UninitContent(start, stride) ==
  [k \in 0..(4 * MAX_TX_SIZE) |-> (start + 7919 * stride * k) % 65536]

\* the contents tried: all zero, all 0x0101 (a byte fill), and contents that
\* differ from entry to entry
UninitStarts == {0, 257}
UninitContents ==
  {UninitContent(start, stride) :
     start \in UninitStarts, stride \in 0..MaxUninitStride}

\* the transform block lies inside the plane region
InsideRegion(dst_rect, po, tx_size) ==
  /\ po.x + TxSize_width(tx_size) <= dst_rect.width
  /\ po.y + TxSize_height(tx_size) <= dst_rect.height

Call_get_intra_edges ==
  /\ pc = "idle"
  /\ \E po \in EdgePositions, tx_size \in TxSizes, bit_depth \in BitDepths,
        opt_mode \in IntraModes \cup {None}, plane_cfg \in PlaneConfigs,
        uninit \in UninitContents :
       LET dst_rect == [width |-> RegionWidth, height |-> RegionHeight]
           a == [dst_rect |-> dst_rect, plane_cfg |-> plane_cfg, po |-> po,
                 tx_size |-> tx_size, bit_depth |-> bit_depth,
                 opt_mode |-> opt_mode, uninit |-> uninit]
       IN /\ InsideRegion(dst_rect, po, tx_size)
          /\ IF get_intra_edges_panics(po, tx_size, opt_mode, plane_cfg)
             THEN CallEdges("get_intra_edges", a, Panic, NoEdgeBuf)
             ELSE CallEdges("get_intra_edges", a, 0,
                            get_intra_edges(dst_rect, plane_cfg, po, tx_size,
                                            bit_depth, opt_mode, uninit))

\* the tiles dst lies in, and the offsets of dst from the tile's corner
TileRects == {[x |-> 0, y |-> 0], [x |-> 64, y |-> 32]}
TileOffsets == {0, 4, 8}
Alphas == {-1, 0, 1}

Call_predict_intra ==
  /\ pc = "idle"
  /\ \E self \in PredictionModes, tile_rect \in TileRects,
        dx \in TileOffsets, dy \in TileOffsets, tx_size \in TxSizes,
        bit_depth \in BitDepths, alpha \in Alphas :
       LET dst_rect == [x |-> tile_rect.x + dx, y |-> tile_rect.y + dy]
           a == [self |-> self, tile_rect |-> tile_rect,
                 dst_rect |-> dst_rect, tx_size |-> tx_size,
                 bit_depth |-> bit_depth, alpha |-> alpha]
       IN IF predict_intra_panics(self, dx, dy, alpha)
          THEN CallKernels("predict_intra", a, Panic, NoCalls)
          ELSE CallKernels("predict_intra", a, 0,
                 predict_intra(self, tile_rect, dst_rect, tx_size, alpha))

\* fi.ref_frames: every reference in its own slot, or all in slot 0
RefSlots == {[i \in 0..6 |-> i], [i \in 0..6 |-> 0]}

\* the slots of fi.rec_buffer.frames that may hold a frame
FrameSlots == {0, 3}

Call_predict_inter ==
  /\ pc = "idle"
  /\ \E self \in PredictionModes, ref0 \in RefTypes, ref1 \in RefTypes,
        slots \in RefSlots, frames \in SUBSET FrameSlots :
       LET ref_frames == << ref0, ref1 >>
           fi == [ref_frames |-> slots, frames |-> frames]
           a == [self |-> self, fi |-> fi, ref_frames |-> ref_frames]
       IN IF predict_inter_panics(self, ref_frames)
          THEN CallKernels("predict_inter", a, Panic, NoCalls)
          ELSE CallKernels("predict_inter", a, 0,
                           predict_inter(self, fi, ref_frames))

\* the offsets of the predicted block in the frame plane
FramePlaneOffsets == {[x |-> 0, y |-> 0], [x |-> 8, y |-> 4]}

\* rec_plane.cfg
RecPlaneConfigs ==
  [xdec : {0, 1}, ydec : {0, 1}, width : {RecWidth}, height : {RecHeight},
   xorigin : {RecOrigin}, yorigin : {RecOrigin}]

Call_get_params ==
  /\ pc = "idle"
  /\ \E rec_cfg \in RecPlaneConfigs, po \in FramePlaneOffsets,
        mv \in MotionVectors :
       CallParams("get_params", [rec_cfg |-> rec_cfg, po |-> po, mv |-> mv],
                  get_params(rec_cfg, po, mv))

Call_has_tr ==
  /\ pc = "idle"
  /\ \E bo \in BlockOffsets, bsize \in BlockSizes :
       CallBool("has_tr", [bo |-> bo, bsize |-> bsize], has_tr(bo, bsize))

Call_has_bl ==
  /\ pc = "idle"
  /\ \E bo \in BlockOffsets, bsize \in BlockSizes :
       CallBool("has_bl", [bo |-> bo, bsize |-> bsize], has_bl(bo, bsize))

\* the caller has consumed the result and is ready for the next call
Return ==
  /\ pc = "done"
  /\ pc' = "idle"
  /\ op' = "none"
  /\ args' = NoArgs
  /\ ret' = 0
  /\ ret_bool' = FALSE
  /\ ret_mv' = NoMv
  /\ edge_buf' = NoEdgeBuf
  /\ calls' = NoCalls
  /\ params' = NoParams

Next ==
  \/ Call_to_index
  \/ Call_is_fwd_ref
  \/ Call_is_bwd_ref
  \/ Call_from_width_and_height
  \/ Call_BlockSize_width
  \/ Call_BlockSize_height
  \/ Call_greater_than
  \/ Call_gte
  \/ Call_subsize
  \/ Call_TxSize_width
  \/ Call_TxSize_height
  \/ Call_sqr_up
  \/ Call_has_tr
  \/ Call_has_bl
  \/ Call_mv_div
  \/ Call_quantize_to_fullpel
  \/ Call_get_intra_edges
  \/ Call_predict_intra
  \/ Call_predict_inter
  \/ Call_get_params
  \/ Return

Spec == Init /\ [][Next]_vars

\* the call of o has returned
Done(o) == pc = "done" /\ op = o

\* ---- properties ----
PowersOfTwo4To128 == {4, 8, 16, 32, 64, 128}

\* C1: for each of the 22 block sizes b, from_width_and_height called with
\* b's width and height returns b; a (width, height) pair that maps to a
\* block size belongs to exactly one block size; every width and every
\* height returned is a power of two between 4 and 128.
C1_FromWidthAndHeightRoundTrip ==
  /\ \A b \in BlockSizes :
       (Done("from_width_and_height")
          /\ args.w = BlockSize_width(b) /\ args.h = BlockSize_height(b))
       => ret = b
  /\ (Done("from_width_and_height") /\ ret # Panic)
       => Cardinality({b \in BlockSizes :
                         BlockSize_width(b) = args.w
                           /\ BlockSize_height(b) = args.h}) = 1
  /\ Done("BlockSize::width") => ret \in PowersOfTwo4To128
  /\ Done("BlockSize::height") => ret \in PowersOfTwo4To128

C1_Witness ==
  /\ Done("from_width_and_height")
  /\ args.w = BlockSize_width(BLOCK_64X16)
  /\ args.h = BlockSize_height(BLOCK_64X16)
  /\ ret = BLOCK_64X16

BlockSize_area(b) == BlockSize_width(b) * BlockSize_height(b)

\* the subsize calls the claims are about: one of the 10 partition types
\* applied to one of the 22 block sizes
SubsizeOfValid ==
  /\ Done("subsize")
  /\ args.partition \in PARTITION_NONE..PARTITION_VERT_4
  /\ args.self \in BlockSizes

\* C2 (as stated): subsize of a partition type and a block size is
\* BLOCK_INVALID or a valid block size of 1/2, 1/4 or 1/8 of the parent's
\* area.
C2_SubsizeAreaIsProperFraction ==
  SubsizeOfValid =>
    \/ ret = BLOCK_INVALID
    \/ /\ ret \in BlockSizes
       /\ \E k \in {2, 4, 8} :
            k * BlockSize_area(ret) = BlockSize_area(args.self)

\* C2 (amended): PARTITION_NONE returns the block itself (the whole area);
\* every other partition type returns BLOCK_INVALID or a valid block size of
\* 1/2, 1/4 or 1/8 of the parent's area.
C2_SubsizeAreaFraction ==
  SubsizeOfValid =>
    IF args.partition = PARTITION_NONE
    THEN ret = args.self
    ELSE \/ ret = BLOCK_INVALID
         \/ /\ ret \in BlockSizes
            /\ \E k \in {2, 4, 8} :
                 k * BlockSize_area(ret) = BlockSize_area(args.self)

C2_Witness ==
  /\ SubsizeOfValid
  /\ args.partition = PARTITION_HORZ_4
  /\ args.self = BLOCK_32X32
  /\ ret = BLOCK_32X8

\* the block offset bo lies at superblock-local offset (x, y)
LocalOffset(bo, x, y) ==
  BitAnd(bo.x, LOCAL_BLOCK_MASK) = x /\ BitAnd(bo.y, LOCAL_BLOCK_MASK) = y

\* a has_tr or has_bl call for a BLOCK_4X4 at the origin of a superblock
SmallestAtOrigin ==
  /\ Done("has_tr") \/ Done("has_bl")
  /\ args.bsize = BLOCK_4X4
  /\ LocalOffset(args.bo, 0, 0)

\* C3 (as stated): for a BLOCK_4X4 at the superblock origin has_tr returns
\* false and has_bl returns false.
C3_NoNeighbourAtOrigin == SmallestAtOrigin => ret_bool = FALSE

\* C3 (amended): for a BLOCK_4X4 at the superblock origin has_tr returns
\* true and has_bl returns true.
C3_NeighboursAtOrigin == SmallestAtOrigin => ret_bool = TRUE

C3_Witness ==
  /\ Done("has_bl")
  /\ args.bsize = BLOCK_4X4
  /\ args.bo = [x |-> 16, y |-> 0]
  /\ ret_bool = TRUE

\* C4: for BLOCK_4X4, has_tr returns true at superblock-local offset (0,0)
\* and false at superblock-local offset (15,15), and its result is the one
\* it gives for the superblock-local coordinates of the block offset.
C4_HasTrSquareSmallest ==
  (Done("has_tr") /\ args.bsize = BLOCK_4X4) =>
    /\ LocalOffset(args.bo, 0, 0) => ret_bool = TRUE
    /\ LocalOffset(args.bo, 15, 15) => ret_bool = FALSE
    /\ ret_bool = has_tr([x |-> BitAnd(args.bo.x, LOCAL_BLOCK_MASK),
                     y |-> BitAnd(args.bo.y, LOCAL_BLOCK_MASK)], BLOCK_4X4)

C4_Witness ==
  /\ Done("has_tr")
  /\ args.bsize = BLOCK_4X4
  /\ args.bo = [x |-> 31, y |-> 15]
  /\ ret_bool = FALSE

\* the larger dimension of the block, in 4-pixel units
LargerDimMi(bsize) ==
  Max(BlockSize_width_mi(bsize), BlockSize_height_mi(bsize))

\* C5: has_tr and has_bl return false at every block offset for a block
\* whose larger dimension exceeds the 16 units of the 64x64 superblock.
C5_LargerThanSuperblock ==
  ((Done("has_tr") \/ Done("has_bl")) /\ LargerDimMi(args.bsize) > 16)
    => ret_bool = FALSE

\* BLOCK_64X128 at an offset where the tall-block override of has_tr applies
C5_Witness ==
  /\ Done("has_tr")
  /\ args.bsize = BLOCK_64X128
  /\ BlockSize_width_mi(args.bsize) < BlockSize_height_mi(args.bsize)
  /\ BitAnd(args.bo.x, BlockSize_width_mi(args.bsize)) = 0
  /\ ret_bool = FALSE

\* C6: for a non-square block that fits in the superblock, with w and h its
\* width and height in 4-pixel units: has_tr is true when w < h and
\* (bo.x & w) = 0, and false when w > h and (bo.y & h) # 0; has_bl is false
\* when w < h and (bo.x & w) # 0, and true when w > h and (bo.y & h) = 0.
C6_Overrides ==
  LET w == BlockSize_width_mi(args.bsize)
      h == BlockSize_height_mi(args.bsize)
  IN /\ (Done("has_tr") /\ LargerDimMi(args.bsize) <= 16) =>
          /\ (w < h /\ BitAnd(args.bo.x, w) = 0) => ret_bool = TRUE
          /\ (w > h /\ BitAnd(args.bo.y, h) # 0) => ret_bool = FALSE
     /\ (Done("has_bl") /\ LargerDimMi(args.bsize) <= 16) =>
          /\ (w < h /\ BitAnd(args.bo.x, w) # 0) => ret_bool = FALSE
          /\ (w > h /\ BitAnd(args.bo.y, h) = 0) => ret_bool = TRUE

\* a tall block whose bit test and loop say no, and whose override says yes
C6_Witness ==
  /\ Done("has_tr")
  /\ args.bsize = BLOCK_4X8
  /\ args.bo = [x |-> 2, y |-> 2]
  /\ has_tr_scan(args.bo, args.bsize) = FALSE
  /\ ret_bool = TRUE

InterRefs ==
  {LAST_FRAME, LAST2_FRAME, LAST3_FRAME, GOLDEN_FRAME,
   BWDREF_FRAME, ALTREF2_FRAME, ALTREF_FRAME}

\* C7: to_index aborts for INTRA_FRAME and for NONE_FRAME; for each of the
\* 7 inter references it returns the ordinal minus 1, so the i-th entry of
\* ALL_INTER_REFS (counting from 0) maps to index i, within 0..6.
C7_ToIndex ==
  Done("to_index") =>
    /\ args.self \in {INTRA_FRAME, NONE_FRAME} => ret = Panic
    /\ args.self \in InterRefs => (ret = args.self - 1 /\ ret \in 0..6)
    /\ \A i \in 1..Len(ALL_INTER_REFS) :
         args.self = ALL_INTER_REFS[i] => ret = i - 1

C7_Witness ==
  /\ Done("to_index")
  /\ args.self = ALL_INTER_REFS[7]
  /\ ret = 6

\* C8: is_fwd_ref holds for exactly LAST_FRAME, LAST2_FRAME, LAST3_FRAME and
\* GOLDEN_FRAME, is_bwd_ref for exactly BWDREF_FRAME, ALTREF2_FRAME and
\* ALTREF_FRAME; INTRA_FRAME and NONE_FRAME are in neither class.
C8_RefClasses ==
  /\ Done("is_fwd_ref") =>
       (ret_bool <=> args.self \in
                       {LAST_FRAME, LAST2_FRAME, LAST3_FRAME, GOLDEN_FRAME})
  /\ Done("is_bwd_ref") =>
       (ret_bool <=> args.self \in {BWDREF_FRAME, ALTREF2_FRAME, ALTREF_FRAME})

\* C9: sqr_up of a transform size is a square transform size whose side is
\* the larger of the size's width and height, and sqr_up leaves it unchanged.
C9_SqrUp ==
  Done("sqr_up") =>
    /\ ret \in TxSizes
    /\ TxSize_width(ret) = TxSize_height(ret)
    /\ TxSize_width(ret) >= TxSize_width(args.self)
    /\ TxSize_width(ret) >= TxSize_height(args.self)
    /\ TxSize_width(ret)
         = Max(TxSize_width(args.self), TxSize_height(args.self))
    /\ sqr_up(ret) = ret

C9_Witness ==
  /\ Done("sqr_up")
  /\ args.self = TX_4X16
  /\ ret = TX_16X16

\* a is at least as wide and as tall as b and strictly larger in a dimension
Dominates(a, b) ==
  /\ BlockSize_width(a) >= BlockSize_width(b)
  /\ BlockSize_height(a) >= BlockSize_height(b)
  /\ \/ BlockSize_width(a) > BlockSize_width(b)
     \/ BlockSize_height(a) > BlockSize_height(b)

\* one of a, b is strictly wider and the other strictly taller
Crossed(a, b) ==
  \/ /\ BlockSize_width(a) > BlockSize_width(b)
     /\ BlockSize_height(a) < BlockSize_height(b)
  \/ /\ BlockSize_width(a) < BlockSize_width(b)
     /\ BlockSize_height(a) > BlockSize_height(b)

\* C10: greater_than(a, b) holds exactly when a is at least as wide and as
\* tall as b and strictly larger in a dimension; it is irreflexive,
\* asymmetric and transitive; gte(a, b) holds exactly when greater_than(a, b)
\* or a = b; when one size is strictly wider and the other strictly taller
\* neither relation holds.
C10_PartialOrder ==
  /\ Done("greater_than") =>
       /\ ret_bool <=> Dominates(args.self, args.other)
       /\ args.self = args.other => ret_bool = FALSE
       /\ ret_bool => ~greater_than(args.other, args.self)
       /\ ret_bool => \A c \in BlockSizes :
                   greater_than(args.other, c) => greater_than(args.self, c)
       /\ Crossed(args.self, args.other) => ret_bool = FALSE
  /\ Done("gte") =>
       /\ ret_bool <=> (greater_than(args.self, args.other)
                     \/ args.self = args.other)
       /\ Crossed(args.self, args.other) => ret_bool = FALSE

C10_Witness ==
  /\ Done("greater_than")
  /\ args.self = BLOCK_16X64
  /\ args.other = BLOCK_64X16
  /\ Crossed(args.self, args.other)
  /\ ret_bool = FALSE

Abs(v) == IF v >= 0 THEN v ELSE -v

\* v is the component c truncated toward zero to a multiple of 8
TruncatedToEight(v, c) ==
  /\ v % 8 = 0
  /\ (c >= 0 => v >= 0) /\ (c <= 0 => v <= 0)
  /\ Abs(v) <= Abs(c)
  /\ Abs(c - v) < 8

\* C11: each component of quantize_to_fullpel(mv) is a multiple of 8 and is
\* the input component truncated toward zero (same sign or zero, magnitude
\* not larger, less than 8 away), no multiplication overflows i16, the
\* result equals eight times the component of mv / 8, and quantizing the
\* result again leaves it unchanged.
C11_QuantizeToFullpel ==
  Done("quantize_to_fullpel") =>
    /\ ret # Panic
    /\ i16_in_range(ret_mv.row) /\ i16_in_range(ret_mv.col)
    /\ TruncatedToEight(ret_mv.row, args.self.row)
    /\ TruncatedToEight(ret_mv.col, args.self.col)
    /\ ret_mv.row = mv_div(args.self, 8).row * 8
    /\ ret_mv.col = mv_div(args.self, 8).col * 8
    /\ quantize_to_fullpel(ret_mv) = ret_mv

\* a negative component that truncation and flooring treat differently, next
\* to the most negative i16
C11_Witness ==
  /\ Done("quantize_to_fullpel")
  /\ args.self = [row |-> -13, col |-> I16_MIN + 1]
  /\ ret_mv = [row |-> -8, col |-> -32760]

\* ---- get_intra_edges: the edge buffer ----
\* get_intra_edges returned an edge buffer
EdgesBuilt == Done("get_intra_edges") /\ ret # Panic

\* the entries of the edge buffer that hold each edge of a w x h transform
\* block: indices into left, top_left and above
LeftRegion(h) == (2 * MAX_TX_SIZE - h)..(2 * MAX_TX_SIZE - 1)
BelowLeftRegion(w, h) == (2 * MAX_TX_SIZE - h - w)..(2 * MAX_TX_SIZE - h - 1)
TopRegion(w) == 0..(w - 1)
TopRightRegion(w, h) == w..(w + h - 1)

\* C12 as stated: at (0, 0) with DC_PRED the left, top-left and above samples
\* of the returned buffer all equal one default value derived from the bit
\* depth (base - 1, base or base + 1), whatever the transform size.
C12_FlatDefaultAtOrigin ==
  (EdgesBuilt /\ args.po = [x |-> 0, y |-> 0] /\ args.opt_mode = DC_PRED) =>
    LET base == Shl(128, args.bit_depth - 8)
        w == TxSize_width(args.tx_size)
        h == TxSize_height(args.tx_size)
    IN \E v \in {base - 1, base, base + 1} :
         /\ \A i \in LeftRegion(h) : edge_buf.left[i] = v
         /\ edge_buf.top_left[0] = v
         /\ \A j \in TopRegion(w) : edge_buf.above[j] = v

\* C12: at (0, 0) with DC_PRED get_intra_edges writes no entry of the edge
\* buffer, for every transform size: the left, top-left and above samples it
\* returns are what the uninitialized buffer held.
C12_NothingWrittenAtOrigin ==
  (EdgesBuilt /\ args.po = [x |-> 0, y |-> 0] /\ args.opt_mode = DC_PRED) =>
    edge_buf = UninitializedAlignedArray(args.uninit)

\* memory filled with 0x0101: the buffer comes back as 257 in every sample
C12_Witness ==
  /\ EdgesBuilt
  /\ args.po = [x |-> 0, y |-> 0]
  /\ args.opt_mode = DC_PRED
  /\ args.tx_size = TX_16X16
  /\ args.bit_depth = 8
  /\ args.uninit = UninitContent(257, 0)
  /\ edge_buf.left[2 * MAX_TX_SIZE - 1] = 257
  /\ edge_buf.top_left[0] = 257
  /\ edge_buf.above[0] = 257

\* the mode the edge needs are stated for: PAETH_PRED stands for DC_PRED at
\* (0, 0), H_PRED on the top row, V_PRED on the left column
EffectiveMode(mode, x, y) ==
  IF mode # PAETH_PRED THEN mode
  ELSE IF x = 0 /\ y = 0 THEN DC_PRED
  ELSE IF y = 0 THEN H_PRED
  ELSE IF x = 0 THEN V_PRED
  ELSE PAETH_PRED

\* the buffer get_intra_edges started from
InitialBuf == UninitializedAlignedArray(args.uninit)

\* every listed entry of f was left as it was in g
NotWritten(f, g, region) == \A i \in region : f[i] = g[i]

\* every listed entry was written; visible when the uninitialized buffer held
\* zero everywhere, which no written sample is
Written(f, region) ==
  args.uninit = UninitContent(0, 0) => \A i \in region : f[i] # 0

\* C17: with a mode, the left samples are written unless the effective mode
\* is V, D45, D63, or DC/CFL at x = 0; the top-left sample only for PAETH,
\* D117, D135, D153; the top samples unless the effective mode is H, or DC/CFL
\* at y = 0; the top-right extension only for D45 and D63; the bottom-left
\* extension only for D207; the entries of an edge that is not needed are not
\* written.  With no mode all five edges are written.
C17_EdgeNeeds ==
  EdgesBuilt =>
    LET x == args.po.x
        y == args.po.y
        w == TxSize_width(args.tx_size)
        h == TxSize_height(args.tx_size)
        some == args.opt_mode # None
        m == EffectiveMode(args.opt_mode, x, y)
        dc_cfl == m \in {DC_PRED, UV_CFL_PRED}
        skip_left == some /\ (m \in {V_PRED, D45_PRED, D63_PRED}
                                \/ (dc_cfl /\ x = 0))
        skip_topleft ==
          some /\ m \notin {PAETH_PRED, D117_PRED, D135_PRED, D153_PRED}
        skip_top == some /\ (m = H_PRED \/ (dc_cfl /\ y = 0))
        skip_topright == some /\ m \notin {D45_PRED, D63_PRED}
        skip_bottomleft == some /\ m # D207_PRED
    IN /\ IF skip_left
          THEN NotWritten(edge_buf.left, InitialBuf.left, LeftRegion(h))
          ELSE Written(edge_buf.left, LeftRegion(h))
       /\ IF skip_topleft
          THEN NotWritten(edge_buf.top_left, InitialBuf.top_left, 0..0)
          ELSE Written(edge_buf.top_left, 0..0)
       /\ IF skip_top
          THEN NotWritten(edge_buf.above, InitialBuf.above, TopRegion(w))
          ELSE Written(edge_buf.above, TopRegion(w))
       /\ IF skip_topright
          THEN NotWritten(edge_buf.above, InitialBuf.above,
                          w..(2 * MAX_TX_SIZE - 1))
          ELSE Written(edge_buf.above, TopRightRegion(w, h))
       /\ IF skip_bottomleft
          THEN NotWritten(edge_buf.left, InitialBuf.left,
                          0..(2 * MAX_TX_SIZE - h - 1))
          ELSE Written(edge_buf.left, BelowLeftRegion(w, h))

\* H_PRED away from the edges: left written, the other four edges untouched
C17_Witness ==
  /\ EdgesBuilt
  /\ args.opt_mode = H_PRED
  /\ args.po = [x |-> 4, y |-> 8]
  /\ args.tx_size = TX_8X8
  /\ args.uninit = UninitContent(257, 1)
  /\ edge_buf.left[2 * MAX_TX_SIZE - 1] = dst(8, 3)
  /\ edge_buf.top_left[0] = args.uninit[2 * MAX_TX_SIZE]
  /\ edge_buf.above[0] = args.uninit[2 * MAX_TX_SIZE + 1]
  /\ edge_buf.left[2 * MAX_TX_SIZE - 9] = args.uninit[2 * MAX_TX_SIZE - 9]

\* C18: each needed edge holds: left, for x > 0, the h pixels of column x - 1
\* from row y + h - 1 up to row y, bottom to top and right-aligned, and for
\* x = 0 h copies of the pixel above the block's first column (row y - 1,
\* column 0) when y > 0, else of base + 1; top-left base at (0, 0), the pixel
\* above when only x = 0, the pixel to the left when only y = 0, else the
\* diagonal pixel; top, for y > 0, the w pixels of row y - 1 from column x,
\* and for y = 0 w copies of the pixel to the left when x > 0, else of
\* base - 1.
C18_EdgeValues ==
  EdgesBuilt =>
    LET x == args.po.x
        y == args.po.y
        w == TxSize_width(args.tx_size)
        h == TxSize_height(args.tx_size)
        base == Shl(128, args.bit_depth - 8)
        needs == edge_needs(args.opt_mode, x, y)
        last == 2 * MAX_TX_SIZE - 1
    IN /\ needs.left =>
            IF x > 0
            THEN \A r \in y..(y + h - 1) :
                   edge_buf.left[last - (r - y)] = dst(r, x - 1)
            ELSE \A i \in LeftRegion(h) :
                   edge_buf.left[i] = IF y > 0 THEN dst(y - 1, 0)
                                      ELSE base + 1
       /\ needs.topleft =>
            edge_buf.top_left[0] =
              IF x = 0 /\ y = 0 THEN base
              ELSE IF x = 0 THEN dst(y - 1, x)
              ELSE IF y = 0 THEN dst(y, x - 1)
              ELSE dst(y - 1, x - 1)
       /\ needs.top =>
            IF y > 0
            THEN \A j \in TopRegion(w) : edge_buf.above[j] = dst(y - 1, x + j)
            ELSE \A j \in TopRegion(w) :
                   edge_buf.above[j] = IF x > 0 THEN dst(y, x - 1)
                                       ELSE base - 1

\* no mode, on the left column below the corner: left and top-left are the
\* pixel above the first column, top is the row above
C18_Witness ==
  /\ EdgesBuilt
  /\ args.opt_mode = None
  /\ args.po = [x |-> 0, y |-> 4]
  /\ args.tx_size = TX_8X4
  /\ \A i \in LeftRegion(4) : edge_buf.left[i] = dst(3, 0)
  /\ edge_buf.top_left[0] = dst(3, 0)
  /\ edge_buf.above[7] = dst(3, 7)

\* n of the top-right extension
TopRightAvail ==
  IF args.po.y # 0
       /\ has_tr(edge_bo(args.po.x, args.po.y, args.plane_cfg.xdec,
                         args.plane_cfg.ydec),
                 edge_bsize(args.tx_size, args.plane_cfg.xdec,
                            args.plane_cfg.ydec))
  THEN Min(TxSize_width(args.tx_size),
           args.dst_rect.width - args.po.x - TxSize_width(args.tx_size))
  ELSE 0

\* n of the bottom-left extension
BottomLeftAvail ==
  IF args.po.x # 0
       /\ has_bl(edge_bo(args.po.x, args.po.y, args.plane_cfg.xdec,
                         args.plane_cfg.ydec),
                 edge_bsize(args.tx_size, args.plane_cfg.xdec,
                            args.plane_cfg.ydec))
  THEN Min(TxSize_height(args.tx_size),
           args.dst_rect.height - args.po.y - TxSize_height(args.tx_size))
  ELSE 0

\* C19: a needed top-right extension holds n pixels of row y - 1 from column
\* x + w, then repeats the last above sample before the shortfall up to index
\* w + h - 1, so that all w + h above samples are defined and none is a
\* zero fill; a needed bottom-left extension holds n pixels of column x - 1
\* below the block, then repeats the last available left sample over the rest
\* of the w below-left samples.
C19_Extensions ==
  EdgesBuilt =>
    LET x == args.po.x
        y == args.po.y
        w == TxSize_width(args.tx_size)
        h == TxSize_height(args.tx_size)
        needs == edge_needs(args.opt_mode, x, y)
        first == 2 * MAX_TX_SIZE - h
    IN /\ needs.topright =>
            LET n == TopRightAvail
            IN /\ \A j \in 0..(n - 1) :
                    edge_buf.above[w + j] = dst(y - 1, x + w + j)
               /\ \A j \in n..(h - 1) :
                    edge_buf.above[w + j] = edge_buf.above[w + n - 1]
               /\ \A j \in 0..(w + h - 1) : edge_buf.above[j] # 0
       /\ needs.bottomleft =>
            LET n == BottomLeftAvail
            IN /\ \A i \in 0..(n - 1) :
                    edge_buf.left[first - 1 - i] = dst(y + h + i, x - 1)
               /\ \A i \in n..(w - 1) :
                    edge_buf.left[first - 1 - i] = edge_buf.left[first - n]
               /\ \A i \in (first - w)..(2 * MAX_TX_SIZE - 1) :
                    edge_buf.left[i] # 0

\* a top-right extension with some pixels available and a shortfall
C19_Witness ==
  /\ EdgesBuilt
  /\ args.opt_mode = D45_PRED
  /\ args.uninit = UninitContent(0, 0)
  /\ TopRightAvail > 0
  /\ TopRightAvail < TxSize_height(args.tx_size)
  /\ edge_buf.above[TxSize_width(args.tx_size)
                    + TxSize_height(args.tx_size) - 1]
       = dst(args.po.y - 1, args.po.x + TxSize_width(args.tx_size)
                              + TopRightAvail - 1)

\* ---- subsize: the shape of the sub-block ----
\* the dimensions a partition type gives the sub-block of a square block of
\* side s
PartitionDims(partition, s) ==
  CASE partition \in {PARTITION_HORZ, PARTITION_HORZ_A, PARTITION_HORZ_B} ->
         [w |-> s, h |-> s \div 2]
    [] partition \in {PARTITION_VERT, PARTITION_VERT_A, PARTITION_VERT_B} ->
         [w |-> s \div 2, h |-> s]
    [] partition = PARTITION_SPLIT -> [w |-> s \div 2, h |-> s \div 2]
    [] partition = PARTITION_HORZ_4 -> [w |-> s, h |-> s \div 4]
    [] partition = PARTITION_VERT_4 -> [w |-> s \div 4, h |-> s]
    [] OTHER -> [w |-> s, h |-> s]

\* some block size is w wide and h high
IsBlockSize(w, h) ==
  \E b \in BlockSizes : BlockSize_width(b) = w /\ BlockSize_height(b) = h

\* C15: for the 10 partition types and 22 block sizes subsize never aborts;
\* PARTITION_NONE returns the block itself; any other partition of a
\* non-square block is BLOCK_INVALID; any other partition of a square block
\* of side s is either a block of the dimensions the partition type
\* prescribes or BLOCK_INVALID, and is BLOCK_INVALID whenever no block size
\* has those dimensions.
C15_SubsizeShape ==
  SubsizeOfValid =>
    LET w == BlockSize_width(args.self)
        h == BlockSize_height(args.self)
        dims == PartitionDims(args.partition, w)
    IN /\ ret # Panic
       /\ ret \in BlockSizeValues
       /\ args.partition = PARTITION_NONE => ret = args.self
       /\ (args.partition # PARTITION_NONE /\ w # h) => ret = BLOCK_INVALID
       /\ (args.partition # PARTITION_NONE /\ w = h) =>
            /\ ret # BLOCK_INVALID =>
                 /\ BlockSize_width(ret) = dims.w
                 /\ BlockSize_height(ret) = dims.h
            /\ ~IsBlockSize(dims.w, dims.h) => ret = BLOCK_INVALID

\* a vertical split of a square block
C15_Witness ==
  /\ SubsizeOfValid
  /\ args.partition = PARTITION_VERT
  /\ args.self = BLOCK_16X16
  /\ ret = BLOCK_8X16

\* ---- predict_intra and predict_inter: the dispatch ----
\* predict_intra returned
IntraPredicted == Done("predict_intra") /\ ret # Panic

\* the position of dst relative to the tile, in a predict_intra call
TileX == args.dst_rect.x - args.tile_rect.x
TileY == args.dst_rect.y - args.tile_rect.y

\* the kernel of the four position cases: corner, top row, left column,
\* interior
ByPosition(corner, top_row, left_column, interior) ==
  IF TileX = 0 /\ TileY = 0 THEN corner
  ELSE IF TileY = 0 THEN top_row
  ELSE IF TileX = 0 THEN left_column
  ELSE interior

\* the slices of the edge buffer a kernel can be handed
EdgeSlices ==
  {"above_slice", "left_slice", "left_and_left_below_slice", "top_left"}

\* C13: DC_PRED, and UV_CFL_PRED with alpha = 0, run the DC kernel of the
\* position for every transform size: the flat kernel at the tile corner,
\* which is handed no edge (and writes 128 at bit depth 8), the left-only
\* average on the top row, the top-only average on the left column, the
\* average of both edges elsewhere; UV_CFL_PRED with alpha # 0 runs the CFL
\* kernel of the same four cases.
C13_DcKernelByPosition ==
  IntraPredicted =>
    /\ (args.self = DC_PRED \/ (args.self = UV_CFL_PRED /\ args.alpha = 0)) =>
         /\ Len(calls) = 1
         /\ calls[1].kernel =
              ByPosition("pred_dc_128", "pred_dc_left", "pred_dc_top",
                         "pred_dc")
         /\ (TileX = 0 /\ TileY = 0) =>
              /\ calls[1].reads \cap EdgeSlices = {}
              /\ args.bit_depth = 8 => pred_dc_128(args.bit_depth) = 128
    /\ (args.self = UV_CFL_PRED /\ args.alpha # 0) =>
         /\ Len(calls) = 1
         /\ calls[1].kernel =
              ByPosition("pred_cfl_128", "pred_cfl_left", "pred_cfl_top",
                         "pred_cfl")

\* DC_PRED for a 16x16 block at the corner of a tile that is not at the
\* frame origin, bit depth 8
C13_Witness ==
  /\ IntraPredicted
  /\ args.self = DC_PRED
  /\ args.tx_size = TX_16X16
  /\ args.bit_depth = 8
  /\ args.tile_rect = [x |-> 64, y |-> 32]
  /\ args.dst_rect = [x |-> 64, y |-> 32]
  /\ calls[1].kernel = "pred_dc_128"
  /\ calls[1].reads = {"bit_depth"}

\* C14: predict_intra aborts for NEARESTMV and every later mode, predict_inter
\* aborts for every intra mode; for each of the 14 intra modes, every
\* transform size, position and alpha predict_intra makes exactly one kernel
\* call, of the block dimensions of the transform size, and does not abort.
C14_ModeClassesAndCoverage ==
  /\ Done("predict_intra") =>
       IF args.self >= NEARESTMV
       THEN ret = Panic /\ calls = << >>
       ELSE /\ args.self \in IntraModes
            /\ ret # Panic
            /\ Len(calls) = 1
            /\ calls[1].W = TxSize_width(args.tx_size)
            /\ calls[1].H = TxSize_height(args.tx_size)
  /\ (Done("predict_inter") /\ args.self \in IntraModes) =>
       ret = Panic /\ calls = << >>

\* a smooth prediction of a rectangular transform block
C14_Witness ==
  /\ IntraPredicted
  /\ args.self = SMOOTH_V_PRED
  /\ args.tx_size = TX_16X64
  /\ Len(calls) = 1
  /\ calls[1].kernel = "pred_smooth_v"
  /\ calls[1].W = 16
  /\ calls[1].H = 64

\* C16: at every position the mode get_intra_edges derives the edge needs of
\* PAETH_PRED from (DC at the corner, H on the top row, V on the left column,
\* PAETH elsewhere) is the mode predict_intra dispatches there, and every
\* edge the dispatched kernel is handed as input (left for H, above for V,
\* above, left and top-left for PAETH) was built by get_intra_edges.
C16_PaethDegeneration ==
  (IntraPredicted /\ args.self = PAETH_PRED) =>
    LET m == edge_mode(PAETH_PRED, TileX, TileY)
        needs == edge_needs(PAETH_PRED, TileX, TileY)
        inputs == CASE m = H_PRED -> {"left_slice"}
                    [] m = V_PRED -> {"above_slice"}
                    [] m = PAETH_PRED ->
                         {"above_slice", "left_slice", "top_left"}
                    [] OTHER -> {}
    IN /\ m = EffectiveMode(PAETH_PRED, TileX, TileY)
       /\ m = predict_intra_mode(PAETH_PRED, TileX, TileY, args.alpha)
       /\ calls[1].kernel =
            ByPosition("pred_dc_128", "pred_h", "pred_v", "pred_paeth")
       /\ calls[1].reads \cap EdgeSlices = inputs
       /\ "left_slice" \in inputs => needs.left
       /\ "above_slice" \in inputs => needs.top
       /\ "top_left" \in inputs => needs.topleft

\* PAETH_PRED on the left column: the vertical kernel, fed by the top edge
C16_Witness ==
  /\ IntraPredicted
  /\ args.self = PAETH_PRED
  /\ TileX = 0
  /\ TileY = 8
  /\ calls[1].kernel = "pred_v"
  /\ edge_needs(PAETH_PRED, TileX, TileY).top
  /\ ~edge_needs(PAETH_PRED, TileX, TileY).left

\* predict_inter returned
InterPredicted == Done("predict_inter") /\ ret # Panic

\* the slot of the i-th reference of the call holds a reconstructed frame
SlotFilled(i) ==
  args.fi.ref_frames[args.ref_frames[i] - 1] \in args.fi.frames

\* the calls of a kernel among the calls made
CallsOf(kernel) == {k \in DOMAIN calls : calls[k].kernel = kernel}

\* C20: predict_inter is compound exactly when ref_frames[1] is neither
\* INTRA_FRAME nor NONE_FRAME.  Single reference: one put_8tap into dst when
\* the slot of ref_frames[0] holds a frame, else no call and no abort.
\* Compound: one prep_8tap into tmp[i] for each of the two references whose
\* slot holds a frame, none for the others, then exactly one mc_avg of the
\* two temporary buffers into dst.
C20_InterDispatch ==
  /\ (Done("predict_inter") /\ args.self \notin IntraModes
        /\ args.ref_frames[1] \in InterRefs) => ret # Panic
  /\ InterPredicted =>
       IF args.ref_frames[2] \in {INTRA_FRAME, NONE_FRAME}
       THEN calls = IF SlotFilled(1)
                    THEN << InterCall("put_8tap", "dst", "rec[0]") >>
                    ELSE << >>
       ELSE /\ CallsOf("put_8tap") = {}
            /\ Cardinality(CallsOf("mc_avg")) = 1
            /\ calls[Len(calls)] = InterCall("mc_avg", "dst", "tmp")
            /\ \A i \in 1..2 :
                 LET prep == InterCall("prep_8tap",
                                       IF i = 1 THEN "tmp[0]" ELSE "tmp[1]",
                                       IF i = 1 THEN "rec[0]" ELSE "rec[1]")
                 IN Cardinality({k \in DOMAIN calls : calls[k] = prep})
                      = IF SlotFilled(i) THEN 1 ELSE 0
            /\ Len(calls) = 1 + Cardinality(CallsOf("prep_8tap"))

\* a compound call whose second reference has no frame: one prep, one blend
C20_Witness ==
  /\ InterPredicted
  /\ args.ref_frames = << LAST_FRAME, ALTREF_FRAME >>
  /\ SlotFilled(1)
  /\ ~SlotFilled(2)
  /\ calls = << InterCall("prep_8tap", "tmp[0]", "rec[0]"),
                InterCall("mc_avg", "dst", "tmp") >>

\* ---- predict_inter: offsets and phases ----
\* o is v / 2^k rounded toward minus infinity
IsFloorOf(o, v, k) == o * (2 ^ k) <= v /\ v < (o + 1) * (2 ^ k)

\* C21: for every motion-vector component v and plane subsampling s the
\* integer offset is floor(v / 2^(3+s)) and the phase is in 0..15 with
\* offset * 16 + phase = v * 2^(1-s); a zero motion vector has offset 0 and
\* phase 0 on both axes; the reference plane is sliced 3 pixels before the
\* integer offset on each axis.
C21_OffsetsAndPhases ==
  Done("get_params") =>
    LET row_offset == params.qo.y + 3 - args.po.y
        col_offset == params.qo.x + 3 - args.po.x
    IN /\ IsFloorOf(row_offset, args.mv.row, 3 + args.rec_cfg.ydec)
       /\ IsFloorOf(col_offset, args.mv.col, 3 + args.rec_cfg.xdec)
       /\ params.row_frac \in 0..15
       /\ params.col_frac \in 0..15
       /\ row_offset * 16 + params.row_frac
            = args.mv.row * (2 ^ (1 - args.rec_cfg.ydec))
       /\ col_offset * 16 + params.col_frac
            = args.mv.col * (2 ^ (1 - args.rec_cfg.xdec))
       /\ is_zero(args.mv) =>
            /\ params.row_frac = 0
            /\ params.col_frac = 0
            /\ params.qo = [x |-> args.po.x - 3, y |-> args.po.y - 3]

\* a negative row on a full-resolution axis, a positive column on a
\* subsampled one
C21_Witness ==
  /\ Done("get_params")
  /\ args.mv = [row |-> -13, col |-> 5]
  /\ args.rec_cfg.xdec = 1
  /\ args.rec_cfg.ydec = 0
  /\ args.po = [x |-> 8, y |-> 4]
  /\ params.row_frac = 6
  /\ params.col_frac = 5
  /\ params.qo = [x |-> 5, y |-> -1]

\* ---- predict_intra: the angles of the directional modes ----
\* predict_intra ran a directional mode
DirectionalPredicted ==
  /\ IntraPredicted
  /\ args.self \in {D45_PRED, D63_PRED, D117_PRED, D135_PRED, D153_PRED,
                    D207_PRED}

\* C22 as stated: the directional kernel is called with 45 for D45_PRED, 67
\* for D63_PRED, 113 for D117_PRED, 157 for D135_PRED, 203 for D153_PRED and
\* 135 for D207_PRED, whatever the position and transform size.
C22_AnglesAsStated ==
  DirectionalPredicted =>
    /\ calls[1].kernel = "pred_directional"
    /\ calls[1].angle = CASE args.self = D45_PRED -> 45
                          [] args.self = D63_PRED -> 67
                          [] args.self = D117_PRED -> 113
                          [] args.self = D135_PRED -> 157
                          [] args.self = D153_PRED -> 203
                          [] args.self = D207_PRED -> 135

\* C22: the directional kernel is called with 45 for D45_PRED, 67 for
\* D63_PRED, 113 for D117_PRED, 135 for D135_PRED, 157 for D153_PRED and 203
\* for D207_PRED, whatever the position and transform size.
C22_AnglesByMode ==
  DirectionalPredicted =>
    /\ Len(calls) = 1
    /\ calls[1].kernel = "pred_directional"
    /\ calls[1].angle = CASE args.self = D45_PRED -> 45
                          [] args.self = D63_PRED -> 67
                          [] args.self = D117_PRED -> 113
                          [] args.self = D135_PRED -> 135
                          [] args.self = D153_PRED -> 157
                          [] args.self = D207_PRED -> 203

\* D153_PRED away from the tile corner, rectangular transform block
C22_Witness ==
  /\ DirectionalPredicted
  /\ args.self = D153_PRED
  /\ args.tx_size = TX_8X16
  /\ TileX = 4
  /\ TileY = 8
  /\ calls[1].kernel = "pred_directional"
  /\ calls[1].angle = 157

\* ---- get_intra_edges: the luma-domain block of the extensions ----
\* C23 as stated: whenever get_intra_edges builds the top-right or the
\* bottom-left extension, for any transform size and any (xdec, ydec), the
\* size (width << xdec, height << ydec) is one of the 22 block sizes, so
\* from_width_and_height does not abort, and the block offset handed to
\* has_tr / has_bl is (x >> (2 - xdec), y >> (2 - ydec)).
C23_LumaSizeIsBlockSize ==
  Done("get_intra_edges") =>
    LET needs == edge_needs(args.opt_mode, args.po.x, args.po.y)
        xdec == args.plane_cfg.xdec
        ydec == args.plane_cfg.ydec
    IN (needs.topright \/ needs.bottomleft) =>
         /\ IsBlockSize(TxSize_width(args.tx_size) * (2 ^ xdec),
                        TxSize_height(args.tx_size) * (2 ^ ydec))
         /\ ret # Panic
         /\ edge_bo(args.po.x, args.po.y, xdec, ydec)
              = [x |-> args.po.x \div (2 ^ (2 - xdec)),
                 y |-> args.po.y \div (2 ^ (2 - ydec))]

====
